---- MODULE Spec2Model ----
(***************************************************************************)
(* Model of the yield / profitability pipeline of depot.py.                *)
(*                                                                         *)
(* Tables (pandas DataFrames with a MultiIndex (date, wkn) and one value   *)
(* column) are functions from keys <<date, wkn>> to numbers.  Numbers are  *)
(* IEEE-like extended rationals: <<n, d>> with d > 0 is the finite value   *)
(* n/d in lowest terms, <<1, 0>> is +inf, <<-1, 0>> is -inf and <<0, 0>>   *)
(* is NaN.  Rounding of binary floating point is not modelled.             *)
(***************************************************************************)
EXTENDS Integers, Sequences, FiniteSets, TLC

(***************************************************************************)
(* Bounds of the model                                                     *)
(***************************************************************************)
NumDates == 4          \* dates are 1..NumDates
DaysPerYear == 3       \* dates 1..DaysPerYear are year BaseYear, and so on
MaxRows == 2           \* rows of a table scenario
MaxValue == 2          \* small position values of a single-row scenario
MaxTrans == 2          \* small transaction values of a single-row scenario
DaysPerMonth == 3      \* dates 1..DaysPerMonth are the first month, and so on

BaseYear == 2023

(***************************************************************************)
(* Numbers                                                                 *)
(***************************************************************************)
NaN  == <<0, 0>>
Inf  == <<1, 0>>
NInf == <<-1, 0>>
Zero == <<0, 1>>
One  == <<1, 1>>
Half == <<1, 2>>

IsNaN(x) == x = NaN
IsInf(x) == x = Inf \/ x = NInf
IsFin(x) == x[2] > 0

AbsInt(n) == IF n < 0 THEN -n ELSE n

RECURSIVE GCD(_, _)
GCD(a, b) == IF b = 0 THEN a ELSE GCD(b, a % b)

\* n/d with d > 0, in lowest terms
Rat(n, d) == LET g == GCD(AbsInt(n), d) IN <<n \div g, d \div g>>

Num(n) == <<n, 1>>

Sgn(x) == IF x[1] > 0 THEN 1 ELSE IF x[1] < 0 THEN -1 ELSE 0

Neg(x) == <<-x[1], x[2]>>

Abs(x) == <<AbsInt(x[1]), x[2]>>

Add(x, y) ==
    IF IsNaN(x) \/ IsNaN(y) THEN NaN
    ELSE IF IsInf(x) /\ IsInf(y) THEN (IF x = y THEN x ELSE NaN)
    ELSE IF IsInf(x) THEN x
    ELSE IF IsInf(y) THEN y
    ELSE LET g == GCD(x[2], y[2])
         IN Rat(x[1] * (y[2] \div g) + y[1] * (x[2] \div g),
                x[2] * (y[2] \div g))

Sub(x, y) == Add(x, Neg(y))

Mul(x, y) ==
    IF IsNaN(x) \/ IsNaN(y) THEN NaN
    ELSE IF IsInf(x) \/ IsInf(y)
         THEN (IF Sgn(x) * Sgn(y) = 0 THEN NaN
               ELSE IF Sgn(x) * Sgn(y) > 0 THEN Inf ELSE NInf)
    ELSE Rat(x[1] * y[1], x[2] * y[2])

Div(x, y) ==
    IF IsNaN(x) \/ IsNaN(y) THEN NaN
    ELSE IF IsInf(y) THEN (IF IsInf(x) THEN NaN ELSE Zero)
    ELSE IF y = Zero
         THEN (IF Sgn(x) = 0 THEN NaN ELSE IF Sgn(x) > 0 THEN Inf ELSE NInf)
    ELSE IF IsInf(x) THEN (IF Sgn(x) * Sgn(y) > 0 THEN Inf ELSE NInf)
    ELSE IF y[1] > 0 THEN Rat(x[1] * y[2], x[2] * y[1])
    ELSE Rat(-(x[1] * y[2]), x[2] * (-y[1]))

\* x > y as pandas/numpy evaluate it: False whenever a NaN is involved
Gt(x, y) ==
    IF IsNaN(x) \/ IsNaN(y) THEN FALSE
    ELSE IF x = y THEN FALSE
    ELSE IF x = Inf \/ y = NInf THEN TRUE
    ELSE IF x = NInf \/ y = Inf THEN FALSE
    ELSE x[1] * y[2] > y[1] * x[2]

\* fillna(0)
FillNa0(x) == IF IsNaN(x) THEN Zero ELSE x

(***************************************************************************)
(* Keys, instruments and tables                                            *)
(***************************************************************************)
Dates == 1 .. NumDates

\* str.lower() on the instrument identifiers of the model
LowerOf == [w \in {"X1", "cm", "cash", "Cash"} |->
              CASE w = "X1"   -> "x1"
                [] w = "cm"   -> "cm"
                [] w = "cash" -> "cash"
                [] w = "Cash" -> "cash"]

Wkns == DOMAIN LowerOf

Keys == Dates \X Wkns

YearOf(d) == BaseYear + ((d - 1) \div DaysPerYear)

EmptyDF == [k \in {} |-> Zero]

Restrict(t, S) == [k \in (DOMAIN t) \cap S |-> t[k]]

(***************************************************************************)
(* yield_components_day                                                    *)
(***************************************************************************)
\* mutant: the identifier is compared without str.lower()
NotCash_CaseSensitive(k) == k[2] # "cash"

NotCash(k) == LowerOf[k[2]] # "cash"

\* df[df.index.get_level_values('wkn').str.lower() != 'cash']
CashFiltered(df) == Restrict(df, {k \in DOMAIN df : NotCash(k)})

\* an optional component table: filtered when given and not empty, else None
\* (None and the empty table both leave the column to the 0.0 default)
OptionalFiltered(df) == IF df = EmptyDF THEN EmptyDF ELSE CashFiltered(df)

\* left join of one component followed by fillna(0.0)
JoinedCol(filtered, k) ==
    IF k \in DOMAIN filtered THEN FillNa0(filtered[k]) ELSE Zero

\* mutant: the switch already applies at exactly half of the value
LargeTransactionMask_AtHalf(value, abs_transaction) ==
    ~Gt(Mul(value, Half), abs_transaction) /\ Gt(abs_transaction, Zero)

\* mutant: every transaction switches the denominator, however small
LargeTransactionMask_AnyTransaction(value, abs_transaction) ==
    Gt(abs_transaction, Zero)

\* abs_transaction > value * 0.5  and  abs_transaction > 0
LargeTransactionMask(value, abs_transaction) ==
    Gt(abs_transaction, Mul(value, Half)) /\ Gt(abs_transaction, Zero)

Denominator(value, transaction) ==
    IF LargeTransactionMask(value, Abs(transaction))
    THEN Abs(transaction) ELSE value

\* mutant: only the denominator is tested, not the position value
ValidDenominatorMask_DenominatorOnly(value, transaction) ==
    Gt(Denominator(value, transaction), Zero)

\* (denominator > 0) & (value > 0)
ValidDenominatorMask(value, transaction) ==
    Gt(Denominator(value, transaction), Zero) /\ Gt(value, Zero)

\* the largest finite float64, scaled to the amounts of the model
FLOAT_MAX == Num(100000)

\* the float64 result of an operation: a finite result beyond the largest
\* finite float is +inf or -inf
Float(x) ==
    IF IsFin(x) /\ Gt(Abs(x), FLOAT_MAX)
    THEN (IF x[1] > 0 THEN Inf ELSE NInf)
    ELSE x

\* mutant: the division is performed on every row
YieldOf_Unmasked(amount, value, transaction) ==
    Float(Div(amount, Denominator(value, transaction)))

\* one component column: 0.0 unless the row is valid
YieldOf(amount, value, transaction) ==
    IF ValidDenominatorMask(value, transaction)
    THEN Float(Div(amount, Denominator(value, transaction)))
    ELSE Zero

\* mutant: the taxes are left out of the total
YieldTotal_NoTaxes(p, d, f, t) == Float(Add(Float(Add(p, d)), f))

YieldTotal(p, d, f, t) == Float(Add(Float(Add(Float(Add(p, d)), f)), t))

\* the row of `result` for one key of the filtered value table
YieldRow(value, gl, dividends, fees, taxes, transaction) ==
    LET p == YieldOf(gl, value, transaction)
        d == YieldOf(dividends, value, transaction)
        f == YieldOf(fees, value, transaction)
        t == YieldOf(taxes, value, transaction)
    IN [yield_price |-> p, yield_dividends |-> d, yield_fees |-> f,
        yield_taxes |-> t, yield_total |-> YieldTotal(p, d, f, t)]

\* mutant: the gain/loss table is joined with how='outer'
YieldResult_OuterJoin(gl_df, fees_df, taxes_df, div_df, val_df, trans_df) ==
    LET vf == CashFiltered(val_df)
        gf == CashFiltered(gl_df)
        df == OptionalFiltered(div_df)
        ff == OptionalFiltered(fees_df)
        tf == OptionalFiltered(taxes_df)
        xf == OptionalFiltered(trans_df)
    IN [k \in (DOMAIN vf) \cup (DOMAIN gf) |->
          YieldRow(IF k \in DOMAIN vf THEN vf[k] ELSE NaN,
                   JoinedCol(gf, k), JoinedCol(df, k),
                   JoinedCol(ff, k), JoinedCol(tf, k), JoinedCol(xf, k))]

\* `result` before the inf check: one row per key of the filtered value table
YieldResult(gl_df, fees_df, taxes_df, div_df, val_df, trans_df) ==
    LET vf == CashFiltered(val_df)
        gf == CashFiltered(gl_df)
        df == OptionalFiltered(div_df)
        ff == OptionalFiltered(fees_df)
        tf == OptionalFiltered(taxes_df)
        xf == OptionalFiltered(trans_df)
    IN [k \in DOMAIN vf |->
          YieldRow(vf[k], JoinedCol(gf, k), JoinedCol(df, k),
                   JoinedCol(ff, k), JoinedCol(tf, k), JoinedCol(xf, k))]

YieldColumns == {"yield_price", "yield_dividends", "yield_fees",
                 "yield_taxes", "yield_total"}

\* np.isinf(result[[...]]).any(axis=1)
InfMask(row) == \E c \in YieldColumns : IsInf(row[c])

Ok(rows)     == [status |-> "ok", rows |-> rows]
Raised(what) == [status |-> what, rows |-> EmptyDF]
Unset        == [status |-> "unset", rows |-> EmptyDF]
None         == [status |-> "None", rows |-> EmptyDF]

\* mutant: the rows with an infinite yield are dropped instead of raising
yield_components_day_DropInf(gl_df, fees_df, taxes_df, div_df, val_df, trans_df) ==
    IF val_df = EmptyDF THEN Raised("ValueError: values_day_df")
    ELSE IF gl_df = EmptyDF THEN Raised("ValueError: gains_losses_df")
    ELSE LET result == YieldResult(gl_df, fees_df, taxes_df, div_df,
                                   val_df, trans_df)
         IN Ok(Restrict(result, {k \in DOMAIN result : ~InfMask(result[k])}))

yield_components_day(gl_df, fees_df, taxes_df, div_df, val_df, trans_df) ==
    IF val_df = EmptyDF THEN Raised("ValueError: values_day_df")
    ELSE IF gl_df = EmptyDF THEN Raised("ValueError: gains_losses_df")
    ELSE LET result == YieldResult(gl_df, fees_df, taxes_df, div_df,
                                   val_df, trans_df)
         IN IF \E k \in DOMAIN result : InfMask(result[k])
            THEN Raised("ValueError: inf")
            ELSE Ok(result)

(***************************************************************************)
(* gains_losses_before_fees_taxes_day                                      *)
(***************************************************************************)
\* the dates of the rows of one instrument that precede date d
EarlierDates(df, k) == {j[1] : j \in {i \in DOMAIN df : i[2] = k[2] /\ i[1] < k[1]}}

MaxOf(S) == CHOOSE m \in S : \A n \in S : n <= m

\* mutant: shift(1) over the whole sorted table, without groupby(level='wkn')
value_yesterday_NoGroupby(values_day_df, k) ==
    LET before == {i \in DOMAIN values_day_df : i[1] < k[1]}
    IN IF k \notin DOMAIN values_day_df \/ before = {} THEN NaN
       ELSE values_day_df[CHOOSE i \in before : \A j \in before : j[1] <= i[1]]

\* values_day_df.sort_index().groupby(level='wkn').shift(1): the value of the
\* preceding row of the same instrument, NaN for the instrument's first row
value_yesterday(values_day_df, k) ==
    IF k \notin DOMAIN values_day_df \/ EarlierDates(values_day_df, k) = {}
    THEN NaN
    ELSE values_day_df[<<MaxOf(EarlierDates(values_day_df, k)), k[2]>>]

\* a column of the outer join, NaN where the key has no row in that table
OuterCol(df, k) == IF k \in DOMAIN df THEN df[k] ELSE NaN

\* mutant: the transaction value is subtracted
gains_losses_before_fees_taxes_day_MinusTransaction(values_day_df, transaction_df) ==
    [k \in (DOMAIN values_day_df) \cup (DOMAIN transaction_df) |->
       Sub(Sub(FillNa0(OuterCol(values_day_df, k)),
               FillNa0(value_yesterday(values_day_df, k))),
           FillNa0(OuterCol(transaction_df, k)))]

gains_losses_before_fees_taxes_day(values_day_df, transaction_df) ==
    [k \in (DOMAIN values_day_df) \cup (DOMAIN transaction_df) |->
       Add(Sub(FillNa0(OuterCol(values_day_df, k)),
               FillNa0(value_yesterday(values_day_df, k))),
           FillNa0(OuterCol(transaction_df, k)))]

(***************************************************************************)
(* yield_components_year                                                   *)
(***************************************************************************)
\* mutant: days with value 0 are kept
PositiveHolding_NonNegative(yield_rows, values_day_df) ==
    {k \in (DOMAIN yield_rows) \cap (DOMAIN values_day_df) :
        Gt(values_day_df[k], Zero) \/ values_day_df[k] = Zero}

\* inner join with values_day_df[['value']], then the rows with value > 0
PositiveHolding(yield_rows, values_day_df) ==
    {k \in (DOMAIN yield_rows) \cap (DOMAIN values_day_df) :
        Gt(values_day_df[k], Zero)}

\* the included dates of one instrument in one year
GroupDates(included, year, wkn) ==
    {k[1] : k \in {i \in included : i[2] = wkn /\ YearOf(i[1]) = year}}

RECURSIVE ProdOnePlus(_, _, _, _)
\* np.prod(1 + series) over the rows <<d, wkn>>, d in dates, of one column
ProdOnePlus(yield_rows, col, wkn, dates) ==
    IF dates = {} THEN One
    ELSE LET d == MaxOf(dates)
         IN Mul(ProdOnePlus(yield_rows, col, wkn, dates \ {d}),
                Add(One, yield_rows[<<d, wkn>>][col]))

RECURSIVE SumOfYields(_, _, _, _)
SumOfYields(yield_rows, col, wkn, dates) ==
    IF dates = {} THEN Zero
    ELSE LET d == MaxOf(dates)
         IN Add(SumOfYields(yield_rows, col, wkn, dates \ {d}),
                yield_rows[<<d, wkn>>][col])

\* mutant: the daily yields are summed, not compounded
calculate_twr_Sum(yield_rows, col, wkn, dates) ==
    SumOfYields(yield_rows, col, wkn, dates)

\* Time-Weighted Return: prod(1 + r) - 1
calculate_twr(yield_rows, col, wkn, dates) ==
    Sub(ProdOnePlus(yield_rows, col, wkn, dates), One)

\* the (year, wkn) groups of the included rows
YearGroups(included) == {<<YearOf(k[1]), k[2]>> : k \in included}

AnnualRow(yield_rows, wkn, dates) ==
    [annual_yield_price     |-> calculate_twr(yield_rows, "yield_price", wkn, dates),
     annual_yield_dividends |-> calculate_twr(yield_rows, "yield_dividends", wkn, dates),
     annual_yield_fees      |-> calculate_twr(yield_rows, "yield_fees", wkn, dates),
     annual_yield_taxes     |-> calculate_twr(yield_rows, "yield_taxes", wkn, dates),
     annual_yield_total     |-> calculate_twr(yield_rows, "yield_total", wkn, dates)]

\* mutant: the group is keyed by the last calendar day of its year
LastDateKey_YearEnd(included, g) == <<(g[1] - BaseYear + 1) * DaysPerYear, g[2]>>

\* the key <<last_date, wkn>> of a (year, wkn) group
LastDateKey(included, g) == <<MaxOf(GroupDates(included, g[1], g[2])), g[2]>>

\* required_columns that are not columns of the (non-empty) daily table
MissingColumns(yield_rows) ==
    YieldColumns \ DOMAIN yield_rows[CHOOSE k \in DOMAIN yield_rows : TRUE]

yield_components_year(ycd, values_day_df) ==
    IF ycd.status # "ok" \/ ycd.rows = EmptyDF
    THEN Raised("ValueError: yield_components_day_df")
    ELSE IF values_day_df = EmptyDF THEN Raised("ValueError: values_day_df")
    ELSE IF MissingColumns(ycd.rows) # {} THEN Raised("ValueError: missing columns")
    ELSE LET included == PositiveHolding(ycd.rows, values_day_df)
         IN IF included = {}
            THEN Raised("ValueError: no positive holding")
            ELSE Ok([key \in {LastDateKey(included, g) : g \in YearGroups(included)} |->
                       AnnualRow(ycd.rows, key[2],
                                 GroupDates(included, YearOf(key[1]), key[2]))])

(***************************************************************************)
(* profitability_year_table                                                *)
(***************************************************************************)
\* Python's sorted() on the instrument identifiers (code point order)
WknOrder == <<"Cash", "X1", "cash", "cm">>

SortedWkns(S) == SelectSeq(WknOrder, LAMBDA w : w \in S)

\* mutant: for each instrument first <wkn>_yield, then <wkn>_days
RECURSIVE DaysYieldColumns_YieldFirst(_)
DaysYieldColumns_YieldFirst(wkns) ==
    IF wkns = <<>> THEN <<>>
    ELSE <<<<Head(wkns), "yield">>, <<Head(wkns), "days">>>>
             \o DaysYieldColumns_YieldFirst(Tail(wkns))

RECURSIVE DaysYieldColumns(_)
\* for each instrument first <wkn>_days, then <wkn>_yield
DaysYieldColumns(wkns) ==
    IF wkns = <<>> THEN <<>>
    ELSE <<<<Head(wkns), "days">>, <<Head(wkns), "yield">>>> \o DaysYieldColumns(Tail(wkns))

\* mutant: <wkn>_yield compounds the price component only
PivotCell_PriceYield(yield_rows, included, year, col) ==
    LET dates == GroupDates(included, year, col[1])
    IN IF dates = {} THEN NaN
       ELSE IF col[2] = "days" THEN Num(Cardinality(dates))
       ELSE calculate_twr(yield_rows, "yield_price", col[1], dates)

\* one cell of the pivot; NaN where the instrument has no row for the year
PivotCell(yield_rows, included, year, col) ==
    LET dates == GroupDates(included, year, col[1])
    IN IF dates = {} THEN NaN
       ELSE IF col[2] = "days" THEN Num(Cardinality(dates))
       ELSE calculate_twr(yield_rows, "yield_total", col[1], dates)

Table(columns, rows) == [status |-> "ok", columns |-> columns, rows |-> rows]

profitability_year_table(ycd, values_day_df) ==
    IF ycd.status # "ok" \/ ycd.rows = EmptyDF
    THEN Raised("ValueError: yield_components_day_df")
    ELSE IF values_day_df = EmptyDF THEN Raised("ValueError: values_day_df")
    ELSE LET yield_comp == CashFiltered(ycd.rows)
             included == PositiveHolding(yield_comp, values_day_df)
             columns == DaysYieldColumns(SortedWkns({k[2] : k \in included}))
         IN IF included = {}
            THEN Raised("ValueError: no positive holding")
            ELSE Table(columns,
                       [year \in {YearOf(k[1]) : k \in included} |->
                          [c \in {columns[i] : i \in 1 .. Len(columns)} |->
                             PivotCell(yield_comp, included, year, c)]])

(***************************************************************************)
(* State                                                                   *)
(***************************************************************************)
VARIABLES
    values_day_df,                          \* (date, wkn) -> value
    gains_losses_before_fees_taxes_df,      \* gain/loss table handed to yield_components_day
    fees_df,                                \* (date, wkn) -> fees
    taxes_df,                               \* (date, wkn) -> taxes
    interest_dividends_df,                  \* (date, wkn) -> interest_dividends
    transaction_value_at_price_day_df,      \* (date, wkn) -> transaction_value_at_price
    gains_losses_before_fees_taxes_day_df,  \* result of gains_losses_before_fees_taxes_day
    yield_components_day_df,                \* result of yield_components_day
    yield_components_year_df,               \* result of yield_components_year
    profitability_year_df,                  \* result of profitability_year_table
    export_enabled,                         \* the "enabled" switch of the report exports
    exported,                               \* report files written so far
    executed,                               \* stages of the main block run so far
    pc,                                     \* position of the caller / of the main block
    bookings_df,                            \* (date, wkn, bank) -> delta
    end_date,                               \* last date of the daily tables
    prices_df,                              \* (date, wkn) -> price
    shares_day_banks_df,                    \* result of shares_from_bookings
    values_day_banks_df,                    \* result of values_from_shares_and_prices
    prices_file,                            \* the stored price table (parquet file)
    instruments_df,                         \* rows of the instruments table, in file order
    yesterday,                              \* the day before the run
    processed,                              \* market-data lookups of prices_update so far
    prices_updated,                         \* the price table as prices_update returned it
    bookings_file,                          \* the rows of the bookings spreadsheet
    imported,                               \* import function -> the table it returned
    passed,                                 \* how a caller passes the tables to the yield functions
    instruments_file,                       \* the instruments spreadsheet
    instruments_region_df,                  \* (wkn, region) -> share
    instruments_type_df,                    \* (wkn, type) -> share
    target_shares_df,                       \* wkn -> target_share
    log,                                    \* the messages of the logger, in order
    input_df,                               \* the table handed to a tool function (df)
    yf_data,                                \* what the market-data provider has per instrument
    todo,                                   \* instruments compare_and_correct_prices has still to visit
    corrected,                              \* the corrected price table
    deviations,                             \* the reported differences
    new_rows,                               \* rows collected for backfill
    parquet,                                \* the content of the parquet file
    cutoff_date,                            \* first date to delete
    confirm,                                \* the answer to the confirmation prompt
    df_eom                                  \* result of df_to_eom

inputs == <<values_day_df, gains_losses_before_fees_taxes_df, fees_df, taxes_df,
            interest_dividends_df, transaction_value_at_price_day_df, export_enabled>>

vars == <<values_day_df, gains_losses_before_fees_taxes_df, fees_df, taxes_df,
          interest_dividends_df, transaction_value_at_price_day_df,
          gains_losses_before_fees_taxes_day_df, yield_components_day_df,
          yield_components_year_df, profitability_year_df,
          export_enabled, exported, executed, pc,
          bookings_df, end_date, prices_df, shares_day_banks_df,
          values_day_banks_df,
          prices_file, instruments_df, yesterday, processed, prices_updated,
          bookings_file, imported, passed,
          instruments_file, instruments_region_df, instruments_type_df,
          target_shares_df, log,
          input_df, yf_data, todo, corrected, deviations, new_rows,
          parquet, cutoff_date, confirm, df_eom>>

\* the tables of sections 3 to 6 of the main block
holdings == <<bookings_df, end_date, prices_df, shares_day_banks_df,
              values_day_banks_df>>

\* everything the yield functions and sections 7.5 to 21 leave alone
\* the state of section 3 other than the price table itself
pricing == <<prices_file, instruments_df, yesterday, processed, prices_updated>>

\* the bookings spreadsheet and what the import functions made of it
importing == <<bookings_file, imported>>

\* the instruments spreadsheet, the allocation tables read from it, the
\* target shares and the log
allocation == <<instruments_file, instruments_region_df, instruments_type_df,
                target_shares_df, log>>

\* the state of the price tools and of df_to_eom
tooling == <<input_df, yf_data, todo, corrected, deviations, new_rows,
             parquet, cutoff_date, confirm, df_eom>>

ingest == <<holdings, pricing, importing, passed, allocation, tooling>>

(***************************************************************************)
(* Input tables                                                            *)
(***************************************************************************)
\* marks a key that has no row in a table
Absent == <<0, -1>>

\* a table is passed to a yield function as None, as a frame without rows,
\* as a frame whose values are in a column of another name, or as it is
Shapes == {"None", "empty", "other_column", "frame"}

\* the tables are passed as they were computed, with all their columns
AsComputed ==
    [values_day_df |-> "frame", gains_losses_before_fees_taxes_df |-> "frame",
     yield_components_day_df |-> "frame", yield_columns |-> YieldColumns]

\* the column `col` of a scenario: the keys whose profile has that field
Column(scenario, col) ==
    [k \in {i \in DOMAIN scenario : scenario[i][col] # Absent} |-> scenario[k][col]]

\* single-row scenarios: one key, amounts around every threshold of the
\* denominator rule, undefined and infinite amounts included
RowWkns   == {"X1", "cm", "Cash"}
RowValues == {Absent, NaN, Inf, Num(1000)} \cup {Num(n) : n \in -1 .. MaxValue}
RowGains  == {Absent, Zero, Num(-1), Num(80), Inf, NInf}
RowTrans  == {Absent, Num(800), Num(-800)} \cup {Num(n) : n \in -MaxTrans .. MaxTrans}
RowDivs   == {Absent, One, Inf}
RowFees   == {Absent, Num(-1)}
RowTaxes  == {Absent, Num(-1)}

RowProfiles ==
    [value : RowValues, gl : RowGains, div : RowDivs, fees : RowFees,
     taxes : RowTaxes, trans : RowTrans]

\* multi-row scenarios: up to MaxRows keys over several dates, two years and
\* two instruments; daily total yields of +1 %, -1 % and +2 %, days without
\* holding, with undefined or negative value, and keys without a value row
Profile(v, g, d, f, t, x) ==
    [value |-> v, gl |-> g, div |-> d, fees |-> f, taxes |-> t, trans |-> x]

PlusOnePercent  == Profile(Num(100), Num(1), Absent, Absent, Absent, Absent)
MinusOnePercent == Profile(Num(100), Zero, Num(1), Num(-1), Num(-1), Num(1))
PlusTwoPercent  == Profile(Num(100), Num(3), Absent, Absent, Num(-1), Absent)

TableProfiles ==
    { PlusOnePercent, MinusOnePercent, PlusTwoPercent,
      Profile(Zero, Num(1), Absent, Absent, Absent, Num(-1)),
      Profile(NaN, Num(1), Absent, Absent, Absent, Absent),
      Profile(Num(-1), Num(1), Absent, Absent, Absent, Absent),
      Profile(Absent, Num(1), Absent, Absent, Absent, Num(1)) }

TableWkns == {"X1", "cash"}
TableKeys == Dates \X TableWkns

\* three consecutive days of one instrument with daily total yields of
\* +1 %, -1 % and +2 %, alone and next to a cash position
ThreeDays ==
    (<<1, "X1">> :> PlusOnePercent) @@ (<<2, "X1">> :> MinusOnePercent)
        @@ (<<3, "X1">> :> PlusTwoPercent)

ThreeDayScenarios == {ThreeDays, ThreeDays @@ (<<2, "cash">> :> MinusOnePercent)}

\* two instruments in the first year, one of them also on the last date,
\* alone and next to a cash position and a day without holding
TwoInstruments ==
    (<<1, "cm">> :> PlusOnePercent) @@ (<<1, "X1">> :> MinusOnePercent)
        @@ (<<2, "X1">> :> PlusTwoPercent) @@ (<<NumDates, "X1">> :> PlusOnePercent)

TwoInstrumentScenarios ==
    {TwoInstruments,
     TwoInstruments @@ (<<1, "Cash">> :> PlusOnePercent)
         @@ (<<2, "cm">> :> Profile(Zero, Num(1), Absent, Absent, Absent, Num(-1))),
     TwoInstruments @@ (<<1, "Cash">> :> PlusOnePercent)
         @@ (<<3, "X1">> :> Profile(Absent, Num(1), One, Num(-1), Num(-1), Num(1)))}

\* finite amounts on a position of a tenth of a cent: a quotient beyond the
\* largest float, two quotients whose sum is beyond it, and one within it
OverflowScenarios ==
    {(<<1, "X1">> :> Profile(Rat(1, 1000), g, d, Absent, Absent, Absent)) :
        <<g, d>> \in {<<Num(1000), Absent>>, <<Num(-1000), Absent>>,
                      <<Num(60), Num(60)>>, <<Num(60), Absent>>}}

Scenarios ==
    UNION {[S -> TableProfiles] :
             S \in {T \in SUBSET TableKeys : Cardinality(T) \in 2 .. MaxRows}}
    \cup UNION {[{<<1, w>>} -> RowProfiles] : w \in RowWkns}
    \cup ThreeDayScenarios
    \cup TwoInstrumentScenarios
    \cup OverflowScenarios

InitInputs(scenario) ==
    /\ values_day_df = Column(scenario, "value")
    /\ gains_losses_before_fees_taxes_df = Column(scenario, "gl")
    /\ fees_df = Column(scenario, "fees")
    /\ taxes_df = Column(scenario, "taxes")
    /\ interest_dividends_df = Column(scenario, "div")
    /\ transaction_value_at_price_day_df = Column(scenario, "trans")

InitResults ==
    /\ gains_losses_before_fees_taxes_day_df = EmptyDF
    /\ yield_components_day_df = Unset
    /\ yield_components_year_df = Unset
    /\ profitability_year_df = Unset
    /\ exported = {}
    /\ executed = <<>>

\* sections 3 to 6 have not run: the value table is given directly
IdleHoldings ==
    /\ bookings_df = EmptyDF
    /\ end_date = 0
    /\ prices_df = EmptyDF
    /\ shares_day_banks_df = EmptyDF
    /\ values_day_banks_df = EmptyDF

\* section 3 is not part of the run
IdlePricing ==
    /\ prices_file = None
    /\ instruments_df = <<>>
    /\ yesterday = 0
    /\ processed = <<>>
    /\ prices_updated = EmptyDF

\* the import functions are not part of the run
IdleImporting ==
    /\ bookings_file = [readable |-> FALSE, rows |-> <<>>]
    /\ imported = <<>>

\* sections 2 and 10.3 are not part of the run
IdleAllocation ==
    /\ instruments_file = [readable |-> FALSE, rows |-> <<>>]
    /\ instruments_region_df = Unset
    /\ instruments_type_df = Unset
    /\ target_shares_df = Unset
    /\ log = <<>>

\* the price tools and df_to_eom are not part of the run
IdleTooling ==
    /\ input_df = EmptyDF
    /\ yf_data = <<>>
    /\ todo = <<>>
    /\ corrected = EmptyDF
    /\ deviations = {}
    /\ new_rows = {}
    /\ parquet = EmptyDF
    /\ cutoff_date = 0
    /\ confirm = ""
    /\ df_eom = EmptyDF

IdleIngest ==
    /\ IdleHoldings
    /\ IdlePricing
    /\ IdleImporting
    /\ IdleAllocation
    /\ IdleTooling
    /\ passed = AsComputed

(***************************************************************************)
(* Direct calls of the functions, in the order in which the main block     *)
(* and the test scripts use them                                           *)
(***************************************************************************)
Init ==
    /\ \E scenario \in Scenarios : InitInputs(scenario)
    /\ InitResults
    /\ IdleIngest
    /\ export_enabled = FALSE
    /\ pc = "call_gains_losses"

CallGainsLossesDay ==
    /\ pc = "call_gains_losses"
    /\ gains_losses_before_fees_taxes_day_df' =
          gains_losses_before_fees_taxes_day(values_day_df,
                                             transaction_value_at_price_day_df)
    /\ pc' = "call_yield_components_day"
    /\ UNCHANGED <<ingest, inputs, yield_components_day_df, yield_components_year_df,
                   profitability_year_df, exported, executed>>

CallYieldComponentsDay ==
    /\ pc = "call_yield_components_day"
    /\ yield_components_day_df' =
          yield_components_day(gains_losses_before_fees_taxes_df, fees_df,
                               taxes_df, interest_dividends_df, values_day_df,
                               transaction_value_at_price_day_df)
    /\ pc' = "call_yield_components_year"
    /\ UNCHANGED <<ingest, inputs, gains_losses_before_fees_taxes_day_df,
                   yield_components_year_df, profitability_year_df,
                   exported, executed>>

CallYieldComponentsYear ==
    /\ pc = "call_yield_components_year"
    /\ yield_components_year_df' =
          yield_components_year(yield_components_day_df, values_day_df)
    /\ pc' = "call_profitability_year_table"
    /\ UNCHANGED <<ingest, inputs, gains_losses_before_fees_taxes_day_df,
                   yield_components_day_df, profitability_year_df,
                   exported, executed>>

CallProfitabilityYearTable ==
    /\ pc = "call_profitability_year_table"
    /\ profitability_year_df' =
          profitability_year_table(yield_components_day_df, values_day_df)
    /\ pc' = "returned"
    /\ UNCHANGED <<ingest, inputs, gains_losses_before_fees_taxes_day_df,
                   yield_components_day_df, yield_components_year_df,
                   exported, executed>>

Next ==
    \/ CallGainsLossesDay
    \/ CallYieldComponentsDay
    \/ CallYieldComponentsYear
    \/ CallProfitabilityYearTable

Spec == Init /\ [][Next]_vars

(***************************************************************************)
(* The main block, sections 7.5 and 7.9 to 21.  Sections 7.7 and 7.8 (the  *)
(* earlier single-column yield) touch none of the tables below and are     *)
(* left out.  Every export is switched by the same "enabled" setting, and  *)
(* writing a report file does not fail.  The outcome of reading the        *)
(* provisions and the target shares depends on files outside the model     *)
(* and is chosen freely.                                                   *)
(***************************************************************************)
\* value tables of the main block are dense: every date for the instrument
MainDates  == 1 .. 2
MainWkns   == {"X1", "cash"}
MainProfiles ==
    [value : {Zero, One, Num(2), Inf}, gl : {Absent}, div : {Absent},
     fees : {Absent, Num(-1)}, taxes : {Absent},
     trans : {Absent, One, Num(-2)}]

MainScenarios == UNION {[MainDates \X {w} -> MainProfiles] : w \in MainWkns}

DayReports == {"yield_price_day", "yield_dividends_day", "yield_fees_day",
               "yield_taxes_day", "yield_total_day"}
YearReports == {"yield_price_year", "yield_dividends_year", "yield_fees_year",
                "yield_taxes_year", "yield_total_year"}
PortfolioReports == {"values_type_month", "values_type_month_percentage",
                     "values_region_month", "values_region_month_percentage",
                     "values_region_month_wo_exception_percentage"}
OverviewReports == {"overview_day", "overview_month", "overview_year"}
BankReports == {"depotauszug", "depots_fuer_finance"}

\* the report files written by an export call
Export(reports) == IF export_enabled THEN exported \cup reports ELSE exported

InitMain ==
    /\ \E scenario \in MainScenarios : InitInputs(scenario)
    /\ InitResults
    /\ IdleIngest
    /\ export_enabled \in BOOLEAN
    /\ pc = "7.5"

Stage(name, next) ==
    /\ executed' = Append(executed, name)
    /\ pc' = next

\* 7.5 gains_losses_before_fees_taxes_day and its export
Main_7_5 ==
    /\ pc = "7.5"
    /\ gains_losses_before_fees_taxes_day_df' =
          gains_losses_before_fees_taxes_day(values_day_df,
                                             transaction_value_at_price_day_df)
    /\ exported' = Export({"gains_losses_before_fees_taxes_day"})
    /\ Stage("gains_losses", "7.9")
    /\ UNCHANGED <<ingest, inputs, yield_components_day_df, yield_components_year_df,
                   profitability_year_df>>

\* 7.9 try: yield_components_day and five exports; except: log, continue
\* with yield_components_day_df = None
Main_7_9 ==
    /\ pc = "7.9"
    /\ LET r == yield_components_day(gains_losses_before_fees_taxes_day_df,
                                     fees_df, taxes_df, interest_dividends_df,
                                     values_day_df,
                                     transaction_value_at_price_day_df)
       IN IF r.status = "ok"
          THEN /\ yield_components_day_df' = r
               /\ exported' = Export(DayReports)
          ELSE /\ yield_components_day_df' = None
               /\ exported' = exported
    /\ Stage("yield_components_day", "7.10")
    /\ UNCHANGED <<ingest, inputs, gains_losses_before_fees_taxes_day_df,
                   yield_components_year_df, profitability_year_df>>

\* mutant: 7.10 without the test for None
Main_7_10_NoNoneTest ==
    /\ pc = "7.10"
    /\ LET r == yield_components_year(yield_components_day_df, values_day_df)
       IN /\ yield_components_year_df' = r
          /\ exported' = IF r.status = "ok" THEN Export(YearReports) ELSE exported
          /\ Stage("yield_components_year", "7.11")
    /\ UNCHANGED <<ingest, inputs, gains_losses_before_fees_taxes_day_df,
                   yield_components_day_df, profitability_year_df>>

\* 7.10 only if yield_components_day_df is not None; errors are logged
Main_7_10 ==
    /\ pc = "7.10"
    /\ IF yield_components_day_df.status = "ok"
       THEN LET r == yield_components_year(yield_components_day_df, values_day_df)
            IN /\ yield_components_year_df' = r
               /\ exported' = IF r.status = "ok" THEN Export(YearReports) ELSE exported
               /\ Stage("yield_components_year", "7.11")
       ELSE /\ pc' = "7.11"
            /\ UNCHANGED <<yield_components_year_df, exported, executed>>
    /\ UNCHANGED <<ingest, inputs, gains_losses_before_fees_taxes_day_df,
                   yield_components_day_df, profitability_year_df>>

\* 7.11 only if yield_components_day_df is not None; errors are logged
Main_7_11 ==
    /\ pc = "7.11"
    /\ IF yield_components_day_df.status = "ok"
       THEN LET r == profitability_year_table(yield_components_day_df, values_day_df)
            IN /\ profitability_year_df' = r
               /\ exported' = IF r.status = "ok" THEN Export({"profitability_year"})
                              ELSE exported
               /\ Stage("profitability_year_table", "8")
       ELSE /\ pc' = "8"
            /\ UNCHANGED <<profitability_year_df, exported, executed>>
    /\ UNCHANGED <<ingest, inputs, gains_losses_before_fees_taxes_day_df,
                   yield_components_day_df, yield_components_year_df>>

results == <<gains_losses_before_fees_taxes_day_df, yield_components_day_df,
             yield_components_year_df, profitability_year_df>>

\* 8 invest_day
Main_8 ==
    /\ pc = "8"
    /\ Stage("invest", "9")
    /\ UNCHANGED <<ingest, inputs, results, exported>>

\* 9 export_portfolio_analysis
Main_9 ==
    /\ pc = "9"
    /\ exported' = Export(PortfolioReports)
    /\ Stage("portfolio_analysis", "10.1")
    /\ UNCHANGED <<ingest, inputs, results>>

\* 10.1 provisions: sys.exit(1) when the provisions cannot be read
Main_10_1 ==
    /\ pc = "10.1"
    /\ \E provisions_ok \in BOOLEAN :
          IF provisions_ok
          THEN /\ exported' = Export({"provisions_month"})
               /\ Stage("provisions", "10.3")
          ELSE /\ exported' = exported
               /\ Stage("provisions", "exit")
    /\ UNCHANGED <<ingest, inputs, results>>

\* 10.3 and 10.5 target shares; rebalancing only if they sum to 100 %
Main_10_3 ==
    /\ pc = "10.3"
    /\ \E target_shares_ok \in BOOLEAN :
          IF target_shares_ok
          THEN /\ exported' = Export({"buy_sell"})
               /\ Stage("rebalancing", "10.4")
          ELSE /\ pc' = "10.4"
               /\ UNCHANGED <<exported, executed>>
    /\ UNCHANGED <<ingest, inputs, results>>

\* 10.4 portfolio composition after provisions
Main_10_4 ==
    /\ pc = "10.4"
    /\ exported' = Export({"values_type_month_after_provisions",
                           "values_type_month_after_provisions_percentage"})
    /\ Stage("values_type_month_after_provisions", "19")
    /\ UNCHANGED <<ingest, inputs, results>>

\* 19 export_overview
Main_19 ==
    /\ pc = "19"
    /\ exported' = Export(OverviewReports)
    /\ Stage("overview", "20")
    /\ UNCHANGED <<ingest, inputs, results>>

\* 20 and 21 bank statement and depots_fuer_finance
Main_20 ==
    /\ pc = "20"
    /\ exported' = Export(BankReports)
    /\ Stage("bank_exports", "end")
    /\ UNCHANGED <<ingest, inputs, results>>

NextMain ==
    \/ Main_7_5
    \/ Main_7_9
    \/ Main_7_10
    \/ Main_7_11
    \/ Main_8
    \/ Main_9
    \/ Main_10_1
    \/ Main_10_3
    \/ Main_10_4
    \/ Main_19
    \/ Main_20

SpecMain == InitMain /\ [][NextMain]_vars

(***************************************************************************)
(* shares_from_bookings, values_from_shares_and_prices, aggregate_banks    *)
(***************************************************************************)
\* 0.0001
Threshold == Rat(1, 10000)

\* x >= y as pandas/numpy evaluate it: False whenever a NaN is involved
Ge(x, y) == (x = y /\ ~IsNaN(x)) \/ Gt(x, y)

\* pd.date_range(bookings.index.get_level_values('date').min(), end_date)
FirstDate(bookings) ==
    CHOOSE d \in {k[1] : k \in DOMAIN bookings} : \A k \in DOMAIN bookings : d <= k[1]

AllDates(bookings, end) == FirstDate(bookings) .. end

\* MultiIndex.from_product([all_dates, wkns, banks]) over the unique
\* instruments and the unique accounts of the bookings
FullIndex(bookings, end) ==
    AllDates(bookings, end) \X {k[2] : k \in DOMAIN bookings}
                            \X {k[3] : k \in DOMAIN bookings}

\* bookings.reindex(full_index).fillna(0)
BookingsExpanded(bookings, end) ==
    [k \in FullIndex(bookings, end) |->
        IF k \in DOMAIN bookings THEN FillNa0(bookings[k]) ELSE Zero]

\* sum() of a group of rows: undefined values are skipped, the sum of none
\* is 0
RECURSIVE SumSkipNa(_, _)
SumSkipNa(df, S) ==
    IF S = {} THEN Zero
    ELSE LET k == CHOOSE i \in S : TRUE
         IN Add(SumSkipNa(df, S \ {k}), FillNa0(df[k]))

\* mutant: the running sum is grouped by instrument only, so the accounts of
\* an instrument run into one sum
CumSum_NoBankGroup(expanded, first, k) ==
    SumSkipNa(expanded, {i \in DOMAIN expanded : i[2] = k[2] /\ i[1] <= k[1]})

\* groupby(['wkn', 'bank'])['delta'].cumsum(): the running sum of one
\* (wkn, bank) pair over the dates first .. k[1]
RECURSIVE CumSum(_, _, _)
CumSum(expanded, first, k) ==
    IF k[1] < first THEN Zero
    ELSE Add(CumSum(expanded, first, <<k[1] - 1, k[2], k[3]>>), expanded[k])

\* mutant: an absolute threshold, abs(delta) >= 0.0001
Clamp_Absolute(delta) == IF Ge(Abs(delta), Threshold) THEN delta ELSE Zero

\* mutant: a strict comparison, delta > 0.0001
Clamp_Strict(delta) == IF Gt(delta, Threshold) THEN delta ELSE Zero

\* delta.where(delta >= 0.0001, 0)
Clamp(delta) == IF Ge(delta, Threshold) THEN delta ELSE Zero

shares_from_bookings(bookings, end) ==
    LET expanded == BookingsExpanded(bookings, end)
    IN [k \in DOMAIN expanded |->
          Clamp(CumSum(expanded, FirstDate(bookings), k))]

\* prices.reindex(MultiIndex.from_product([dates, wkns, banks])): the price
\* of (date, wkn) for every account, NaN where prices has no such row
PricesExpanded(prices, banks) ==
    [k \in {i[1] : i \in DOMAIN prices} \X {i[2] : i \in DOMAIN prices} \X banks |->
        OuterCol(prices, <<k[1], k[2]>>)]

\* values['value'] = values['share'] * prices_expanded['price'], aligned on
\* the index of the shares
values_from_shares_and_prices(shares_day_banks, prices) ==
    LET banks == {k[3] : k \in DOMAIN shares_day_banks}
        prices_expanded == PricesExpanded(prices, banks)
    IN [k \in DOMAIN shares_day_banks |->
          Mul(shares_day_banks[k], OuterCol(prices_expanded, k))]

\* df.groupby(['date', 'wkn']).sum()
aggregate_banks(df) ==
    [g \in {<<k[1], k[2]>> : k \in DOMAIN df} |->
        SumSkipNa(df, {k \in DOMAIN df : k[1] = g[1] /\ k[2] = g[2]})]

(***************************************************************************)
(* Sections 5 and 6 of the main block: bookings to daily values            *)
(***************************************************************************)
\* bookings: up to MaxRows rows on the first two dates, for an instrument
\* held in two accounts and one held in a single account; deltas that sum
\* to values on, below and above the threshold, and to negative values
BookingDates == {1, 2}
BookingPairs == {<<"X1", "A">>, <<"X1", "B">>, <<"cm", "B">>}
BookingKeys == {<<d, p[1], p[2]>> : d \in BookingDates, p \in BookingPairs}
Deltas == {Num(2), Num(-3), Threshold, Rat(1, 20000), Rat(-1, 10000)}

BookingScenarios ==
    UNION {[S -> Deltas] :
             S \in {T \in SUBSET BookingKeys : Cardinality(T) \in 1 .. MaxRows}}

\* price tables as prices_import_and_process leaves them: one row per date
\* of the range and instrument of the file; complete, undefined before the
\* first stored price, or without any row of an instrument
PriceOf(d, w) == IF w = "X1" THEN Num(d) ELSE Num(10)

PricesComplete == [k \in Dates \X {"X1", "cm"} |-> PriceOf(k[1], k[2])]
PricesLate ==
    [k \in Dates \X {"X1", "cm"} |->
        IF k = <<1, "X1">> THEN NaN ELSE PriceOf(k[1], k[2])]
PricesWithoutCm == [k \in Dates \X {"X1"} |-> PriceOf(k[1], k[2])]

PriceScenarios == {PricesComplete, PricesLate, PricesWithoutCm}

InitShares ==
    /\ InitInputs(EmptyDF)
    /\ InitResults
    /\ export_enabled = FALSE
    /\ IdleAllocation
    /\ IdleTooling
    /\ bookings_df \in BookingScenarios
    /\ end_date \in Dates
    /\ prices_df \in PriceScenarios
    /\ shares_day_banks_df = EmptyDF
    /\ values_day_banks_df = EmptyDF
    /\ IdlePricing
    /\ IdleImporting
    /\ passed = AsComputed
    /\ pc = "5"

\* 5 shares_from_bookings
Main_5 ==
    /\ pc = "5"
    /\ shares_day_banks_df' = shares_from_bookings(bookings_df, end_date)
    /\ pc' = "6.1"
    /\ UNCHANGED <<bookings_df, end_date, prices_df, values_day_banks_df,
                   pricing, importing, passed, allocation, tooling, inputs,
                   results, exported, executed>>

\* 6.1 values_from_shares_and_prices
Main_6_1 ==
    /\ pc = "6.1"
    /\ values_day_banks_df' =
          values_from_shares_and_prices(shares_day_banks_df, prices_df)
    /\ pc' = "6.4"
    /\ UNCHANGED <<bookings_df, end_date, prices_df, shares_day_banks_df,
                   pricing, importing, passed, allocation, tooling, inputs,
                   results, exported, executed>>

\* 6.4 aggregate_banks gives the (date, wkn) value table
Main_6_4 ==
    /\ pc = "6.4"
    /\ values_day_df' = aggregate_banks(values_day_banks_df)
    /\ pc' = "7"
    /\ UNCHANGED <<ingest, gains_losses_before_fees_taxes_df, fees_df,
                   taxes_df, interest_dividends_df,
                   transaction_value_at_price_day_df, export_enabled,
                   results, exported, executed>>

NextShares ==
    \/ Main_5
    \/ Main_6_1
    \/ Main_6_4

SpecShares == InitShares /\ [][NextShares]_vars

(***************************************************************************)
(* prices_update and prices_import_and_process.  The calendar of the model *)
(* starts on a Wednesday and has no public holiday; the stored price table *)
(* has one row per key at most, the default values of the instruments      *)
(* table are numbers or empty, and the instruments table has been read.    *)
(***************************************************************************)
\* d.weekday(): 0 is Monday, date 1 is a Wednesday
Weekday(d) == (d + 1) % 7

\* Monday to Friday and not in de_holidays
IsTradingDay(d) == Weekday(d) < 5

LastDate(prices) ==
    CHOOSE d \in {k[1] : k \in DOMAIN prices} : \A k \in DOMAIN prices : k[1] <= d

\* mutant: the range starts on the last stored date itself
MissingDates_FromLastDate(prices, yday) ==
    {d \in LastDate(prices) .. yday : IsTradingDay(d)}

\* the trading days of last_date + 1 .. yesterday
MissingDates(prices, yday) ==
    {d \in LastDate(prices) + 1 .. yday : IsTradingDay(d)}

\* prices.loc[(date, wkn), 'price'] = value for every key of `rows`
SetRows(prices, rows) ==
    [k \in (DOMAIN prices) \cup (DOMAIN rows) |->
        IF k \in DOMAIN rows THEN rows[k] ELSE prices[k]]

\* the Close value the market-data service has for an instrument and a date
CloseOf(d, w) == Num(100 + 10 * d + (IF w = "cm" THEN 1 ELSE 2))

\* what yf.download and the access to 'Close' can do for one instrument:
\* raise, return nothing, or return data in which the access of a missing
\* date gives a value, a KeyError or another exception
Lookups(missing) ==
    {[kind |-> "exception", close |-> <<>>], [kind |-> "empty", close |-> <<>>]}
    \cup {[kind |-> "data", close |-> c] :
            c \in [missing -> {"value", "KeyError", "Exception"}]}

NoTicker == [kind |-> "default", close |-> <<>>]

HasTicker(row) == row.ticker # ""

\* the rows one iteration of the loop writes into prices
RowsWritten(row, lookup, missing) ==
    IF HasTicker(row)
    THEN IF lookup.kind = "data"
         THEN [k \in {<<d, row.wkn>> : d \in {e \in missing : lookup.close[e] # "Exception"}} |->
                 IF lookup.close[k[1]] = "value" THEN CloseOf(k[1], row.wkn) ELSE NaN]
         ELSE EmptyDF
    ELSE [k \in {<<d, row.wkn>> : d \in missing} |-> row.default_value]

\* step 5: reindex over every calendar day from the first date of the table
\* through yesterday and every instrument of the table
Reindexed(prices, yday) ==
    LET first == CHOOSE d \in {k[1] : k \in DOMAIN prices} :
                    \A k \in DOMAIN prices : d <= k[1]
    IN [k \in (first .. yday) \X {i[2] : i \in DOMAIN prices} |-> OuterCol(prices, k)]

\* mutant: the gaps are filled from the next later price (bfill)
RECURSIVE Ffill_FromLater(_, _)
Ffill_FromLater(prices, k) ==
    IF ~IsNaN(prices[k]) THEN prices[k]
    ELSE IF <<k[1] + 1, k[2]>> \notin DOMAIN prices THEN NaN
    ELSE Ffill_FromLater(prices, <<k[1] + 1, k[2]>>)

\* step 6: groupby('wkn')['price'].ffill() on the table sorted by date
RECURSIVE Ffill(_, _)
Ffill(prices, k) ==
    IF ~IsNaN(prices[k]) THEN prices[k]
    ELSE IF <<k[1] - 1, k[2]>> \notin DOMAIN prices THEN NaN
    ELSE Ffill(prices, <<k[1] - 1, k[2]>>)

Ffilled(prices) == [k \in DOMAIN prices |-> Ffill(prices, k)]

\* the instruments table: two instruments with a ticker, one without
CmRow   == [wkn |-> "cm", ticker |-> "CBK.DE", default_value |-> NaN]
FtdRow  == [wkn |-> "ftd", ticker |-> "FTD.DE", default_value |-> NaN]
CashRow == [wkn |-> "cash", ticker |-> "", default_value |-> One]

InstrumentTables == {<<CmRow, FtdRow, CashRow>>}

\* stored prices: rows of the first two dates, each present or not, one of
\* them possibly with an undefined price
StoredPriceOf(d, w) == Num(10 * d + (IF w = "cm" THEN 1 ELSE 2))
StoredKeys == {1, 2} \X {"cm", "ftd"}

StoredTables ==
    {[k \in S |-> StoredPriceOf(k[1], k[2])] : S \in (SUBSET StoredKeys) \ {{}}}
    \cup {[k \in S \cup {<<2, "cm">>} |->
             IF k = <<2, "cm">> THEN NaN ELSE StoredPriceOf(k[1], k[2])] :
           S \in SUBSET (StoredKeys \ {<<2, "cm">>})}

InitPrices ==
    /\ InitInputs(EmptyDF)
    /\ InitResults
    /\ export_enabled = FALSE
    /\ IdleAllocation
    /\ IdleTooling
    /\ IdleHoldings
    /\ IdleImporting
    /\ passed = AsComputed
    /\ prices_file \in {Ok(t) : t \in StoredTables} \cup {None}
    /\ instruments_df \in InstrumentTables
    /\ yesterday \in Dates
    /\ processed = <<>>
    /\ prices_updated = EmptyDF
    /\ pc = "3.1"

unpriced == <<bookings_df, end_date, shares_day_banks_df, values_day_banks_df,
              importing, passed, allocation, tooling, inputs, results,
              exported, executed>>

\* 3 step 1: import_parquet; None ends the run; prices_update returns at
\* once when no trading day is missing
Main_3_1 ==
    /\ pc = "3.1"
    /\ IF prices_file = None
       THEN /\ pc' = "exit"
            /\ UNCHANGED prices_df
       ELSE /\ prices_df' = prices_file.rows
            /\ pc' = IF MissingDates(prices_file.rows, yesterday) = {}
                     THEN "3.4" ELSE "3.3"
    /\ UNCHANGED <<pricing, unpriced>>

\* mutant: an exception of yf.download is not caught and leaves prices_update
Main_3_3_Uncaught ==
    /\ pc = "3.3"
    /\ LET row == instruments_df[Len(processed) + 1]
           missing == MissingDates(prices_file.rows, yesterday)
       IN \E lookup \in IF HasTicker(row) THEN Lookups(missing) ELSE {NoTicker} :
            /\ prices_df' = SetRows(prices_df, RowsWritten(row, lookup, missing))
            /\ processed' = Append(processed, lookup)
            /\ pc' = IF lookup.kind = "exception" THEN "raised"
                     ELSE IF Len(processed') = Len(instruments_df) THEN "3.4"
                     ELSE "3.3"
    /\ UNCHANGED <<prices_file, instruments_df, yesterday, prices_updated, unpriced>>

\* 3 step 3: one iteration of the loop of prices_update over the
\* instruments; every failure of the lookup is logged and the loop goes on
Main_3_3 ==
    /\ pc = "3.3"
    /\ LET row == instruments_df[Len(processed) + 1]
           missing == MissingDates(prices_file.rows, yesterday)
       IN \E lookup \in IF HasTicker(row) THEN Lookups(missing) ELSE {NoTicker} :
            /\ prices_df' = SetRows(prices_df, RowsWritten(row, lookup, missing))
            /\ processed' = Append(processed, lookup)
            /\ pc' = IF Len(processed') = Len(instruments_df) THEN "3.4" ELSE "3.3"
    /\ UNCHANGED <<prices_file, instruments_df, yesterday, prices_updated, unpriced>>

\* 3 steps 4 to 6: prices_update has returned; to_parquet (a failure is a
\* warning), reindex over all calendar days, ffill per instrument
Main_3_4 ==
    /\ pc = "3.4"
    /\ prices_updated' = prices_df
    /\ \E saved \in BOOLEAN :
          prices_file' = IF saved THEN Ok(prices_df) ELSE prices_file
    /\ prices_df' = Ffilled(Reindexed(prices_df, yesterday))
    /\ pc' = "4"
    /\ UNCHANGED <<instruments_df, yesterday, processed, unpriced>>

NextPrices ==
    \/ Main_3_1
    \/ Main_3_3
    \/ Main_3_4

SpecPrices == InitPrices /\ [][NextPrices]_vars

(***************************************************************************)
(* bookings_import, fees_import, taxes_import, interest_dividends_import   *)
(* and transaction_value_at_price_import: the same steps on one column of  *)
(* the bookings spreadsheet each                                           *)
(***************************************************************************)
\* an empty text cell of the spreadsheet, read as NaN
EmptyText == ""

\* str.lower() on the texts of the spreadsheet; NaN stays NaN
LowerText == [t \in {"cm", "CM", "ftd", "a", "A", "b", EmptyText} |->
                CASE t = "CM" -> "cm"
                  [] t = "A"  -> "a"
                  [] OTHER    -> t]

\* df['wkn'].str.lower(), df['bank'].str.lower()
LowerCased(rows) ==
    [i \in 1 .. Len(rows) |->
        [rows[i] EXCEPT !.wkn = LowerText[@], !.bank = LowerText[@]]]

\* mutant: only the rows without instrument or account are dropped
Dropna_KeysOnly(rows, field) ==
    LET Complete(r) == r.wkn # EmptyText /\ r.bank # EmptyText
    IN SelectSeq(rows, Complete)

\* df.dropna(subset=['wkn', 'bank', field])
Dropna(rows, field) ==
    LET Complete(r) == r.wkn # EmptyText /\ r.bank # EmptyText /\ ~IsNaN(r[field])
    IN SelectSeq(rows, Complete)

\* set_index(['date', 'wkn', 'bank']) and groupby(level=[...]).sum() of the
\* one value column
RECURSIVE GroupSum(_, _)
GroupSum(rows, field) ==
    IF rows = <<>> THEN EmptyDF
    ELSE LET r == Head(rows)
             k == <<r.date, r.wkn, r.bank>>
             rest == GroupSum(Tail(rows), field)
         IN [j \in (DOMAIN rest) \cup {k} |->
               IF j # k THEN rest[j]
               ELSE IF k \in DOMAIN rest THEN Add(FillNa0(r[field]), rest[k])
               ELSE FillNa0(r[field])]

\* the body shared by the five functions; None when the file cannot be read
ImportField(file, field) ==
    IF ~file.readable THEN None
    ELSE Ok(GroupSum(Dropna(LowerCased(file.rows), field), field))

bookings_import(file) == ImportField(file, "delta")
fees_import(file) == ImportField(file, "fees")
taxes_import(file) == ImportField(file, "taxes")
interest_dividends_import(file) == ImportField(file, "interest_dividends")
transaction_value_at_price_import(file) ==
    ImportField(file, "transaction_value_at_price")

\* rows of the spreadsheet: a purchase, a second purchase of the same key
\* written in capitals and with a fee, a dividend with tax and no delta, a
\* sale on the next date, another instrument in another account, and rows
\* without instrument or without account
FileRow(d, w, b, delta, fees, taxes, tvap, intdiv) ==
    [date |-> d, wkn |-> w, bank |-> b, delta |-> delta, fees |-> fees,
     taxes |-> taxes, transaction_value_at_price |-> tvap,
     interest_dividends |-> intdiv]

FileRows ==
    { FileRow(1, "cm", "a", Num(2), NaN, NaN, Num(100), NaN),
      FileRow(1, "CM", "A", One, Num(-1), NaN, Num(50), NaN),
      FileRow(1, "cm", "a", NaN, NaN, Num(-3), NaN, Num(5)),
      FileRow(2, "cm", "a", Num(-3), Num(-1), Num(-2), Num(-150), NaN),
      FileRow(1, "ftd", "b", One, Num(-2), NaN, Num(10), One),
      FileRow(1, EmptyText, "a", One, Num(-1), Num(-1), Num(10), One),
      FileRow(1, "cm", EmptyText, One, Num(-1), Num(-1), Num(10), One) }

BookingFiles ==
    {[readable |-> FALSE, rows |-> <<>>]}
    \cup {[readable |-> TRUE, rows |-> rows] :
            rows \in UNION {[1 .. n -> FileRows] : n \in 1 .. MaxRows + 1}}

InitImports ==
    /\ InitInputs(EmptyDF)
    /\ InitResults
    /\ export_enabled = FALSE
    /\ IdleAllocation
    /\ IdleTooling
    /\ IdleHoldings
    /\ IdlePricing
    /\ bookings_file \in BookingFiles
    /\ imported = <<>>
    /\ passed = AsComputed
    /\ pc = "call_bookings_import"

\* the call of one import function
Returns(name, table, next) ==
    /\ imported' = (name :> table) @@ imported
    /\ pc' = next
    /\ UNCHANGED <<bookings_file, holdings, pricing, passed, allocation,
                   tooling, inputs, results, exported, executed>>

CallBookingsImport ==
    /\ pc = "call_bookings_import"
    /\ Returns("bookings_import", bookings_import(bookings_file),
               "call_fees_import")

CallFeesImport ==
    /\ pc = "call_fees_import"
    /\ Returns("fees_import", fees_import(bookings_file), "call_taxes_import")

CallTaxesImport ==
    /\ pc = "call_taxes_import"
    /\ Returns("taxes_import", taxes_import(bookings_file),
               "call_interest_dividends_import")

CallInterestDividendsImport ==
    /\ pc = "call_interest_dividends_import"
    /\ Returns("interest_dividends_import",
               interest_dividends_import(bookings_file),
               "call_transaction_value_at_price_import")

CallTransactionValueAtPriceImport ==
    /\ pc = "call_transaction_value_at_price_import"
    /\ Returns("transaction_value_at_price_import",
               transaction_value_at_price_import(bookings_file), "returned")

NextImports ==
    \/ CallBookingsImport
    \/ CallFeesImport
    \/ CallTaxesImport
    \/ CallInterestDividendsImport
    \/ CallTransactionValueAtPriceImport

SpecImports == InitImports /\ [][NextImports]_vars

(***************************************************************************)
(* Calls of yield_components_day and yield_components_year with tables     *)
(* that are None, empty or lack a column                                   *)
(***************************************************************************)
\* mutant: the two tests for the required column are missing
ValidateDayInputs_NoColumnTest(val_shape, val_df, gl_shape, gl_df) ==
    IF val_shape \in {"None", "empty"} \/ val_df = EmptyDF
    THEN "ValueError: values_day_df"
    ELSE IF gl_shape \in {"None", "empty"} \/ gl_df = EmptyDF
    THEN "ValueError: gains_losses_df"
    ELSE "ok"

\* the validation at the head of yield_components_day
ValidateDayInputs(val_shape, val_df, gl_shape, gl_df) ==
    IF val_shape \in {"None", "empty"} \/ val_df = EmptyDF
    THEN "ValueError: values_day_df"
    ELSE IF gl_shape \in {"None", "empty"} \/ gl_df = EmptyDF
    THEN "ValueError: gains_losses_df"
    ELSE IF val_shape = "other_column"
    THEN "ValueError: column value"
    ELSE IF gl_shape = "other_column"
    THEN "ValueError: column gains_losses_before_fees_taxes"
    ELSE "ok"

\* the daily yields as the caller passes them on to yield_components_year:
\* None, a frame without rows, or the rows with the columns it keeps
PassedYields(shape, columns, ycd) ==
    IF shape = "None" \/ ycd.status # "ok" THEN None
    ELSE IF shape = "empty" THEN Ok(EmptyDF)
    ELSE Ok([k \in DOMAIN ycd.rows |-> [c \in columns |-> ycd.rows[k][c]]])

\* one or two days of one instrument, with and without positive value, and
\* the three-day scenarios
ArgScenarios ==
    UNION {[{<<1, "X1">>} -> TableProfiles], [{<<1, "X1">>, <<2, "X1">>} -> TableProfiles]}
    \cup ThreeDayScenarios

\* all five columns, or all but one
PassedColumns == {YieldColumns} \cup {YieldColumns \ {c} : c \in YieldColumns}

InitArgs ==
    /\ \E scenario \in ArgScenarios : InitInputs(scenario)
    /\ InitResults
    /\ export_enabled = FALSE
    /\ IdleAllocation
    /\ IdleTooling
    /\ IdleHoldings
    /\ IdlePricing
    /\ IdleImporting
    /\ passed \in [values_day_df : Shapes,
                   gains_losses_before_fees_taxes_df : Shapes,
                   yield_components_day_df : {"None", "empty", "frame"},
                   yield_columns : PassedColumns]
    /\ pc = "call_yield_components_day"

CallYieldComponentsDayWith ==
    /\ pc = "call_yield_components_day"
    /\ LET valid == ValidateDayInputs(passed.values_day_df, values_day_df,
                                      passed.gains_losses_before_fees_taxes_df,
                                      gains_losses_before_fees_taxes_df)
       IN yield_components_day_df' =
             IF valid # "ok" THEN Raised(valid)
             ELSE yield_components_day(gains_losses_before_fees_taxes_df,
                                       fees_df, taxes_df, interest_dividends_df,
                                       values_day_df,
                                       transaction_value_at_price_day_df)
    /\ pc' = "call_yield_components_year"
    /\ UNCHANGED <<ingest, inputs, gains_losses_before_fees_taxes_day_df,
                   yield_components_year_df, profitability_year_df,
                   exported, executed>>

CallYieldComponentsYearWith ==
    /\ pc = "call_yield_components_year"
    /\ yield_components_year_df' =
          yield_components_year(PassedYields(passed.yield_components_day_df,
                                             passed.yield_columns,
                                             yield_components_day_df),
                                values_day_df)
    /\ pc' = "returned"
    /\ UNCHANGED <<ingest, inputs, gains_losses_before_fees_taxes_day_df,
                   yield_components_day_df, profitability_year_df,
                   exported, executed>>

NextArgs ==
    \/ CallYieldComponentsDayWith
    \/ CallYieldComponentsYearWith

SpecArgs == InitArgs /\ [][NextArgs]_vars

(***************************************************************************)
(* instruments_import_and_process (section 2) and the target shares of     *)
(* section 10.3.  A share of the spreadsheet is a fraction of 1.  The      *)
(* spreadsheet is either readable with all its columns or not there; its   *)
(* rows have different identifiers.  What sections 3 to 10.1 do depends on *)
(* files outside this part of the model: they reach section 10.3 or leave  *)
(* the program.  values_vs_target logs on its own and is left out.         *)
(***************************************************************************)
\* logger.info, logger.warning, logger.error
Logged(level, message) == [level |-> level, message |-> message]

RegColumns == {"Reg EU", "Reg US"}
TypeColumns == {"Type Stock", "Type Bond"}

\* col.lower().replace(f"{search_param} ", ""): the prefix is written with
\* its capital letter, the name is already lower-case, nothing is replaced
DetailColumn == [c \in RegColumns \cup TypeColumns |->
                   CASE c = "Reg EU"     -> "reg eu"
                     [] c = "Reg US"     -> "reg us"
                     [] c = "Type Stock" -> "type stock"
                     [] c = "Type Bond"  -> "type bond"]

\* the index of a frame read from the rows of the spreadsheet
RowIndex(file) == {LowerText[file.rows[i].wkn] : i \in 1 .. Len(file.rows)}

RowOf(file, wkn) ==
    file.rows[CHOOSE i \in 1 .. Len(file.rows) : LowerText[file.rows[i].wkn] = wkn]

\* instruments_import: the first four columns, wkn and ticker lower-cased
instruments_import(file) ==
    IF ~file.readable THEN None
    ELSE [i \in 1 .. Len(file.rows) |->
            [wkn |-> LowerText[file.rows[i].wkn],
             ticker |-> file.rows[i].ticker,
             default_value |-> file.rows[i].default_value]]

\* instruments_details_import: the columns starting with search_param,
\* fillna(0), stacked into (wkn, column) -> share; no test of the sums
instruments_details_import(file, columns, cells) ==
    IF ~file.readable THEN None
    ELSE Ok([k \in RowIndex(file) \X {DetailColumn[c] : c \in columns} |->
               LET c == CHOOSE c \in columns : DetailColumn[c] = k[2]
               IN FillNa0(RowOf(file, k[1])[cells][c])])

\* instruments_import_and_process: the three tables or (None, None, None),
\* and the messages logged on the way
instruments_import_and_process(file) ==
    LET main == instruments_import(file)
        region == instruments_details_import(file, RegColumns, "reg")
        type == instruments_details_import(file, TypeColumns, "type")
        Failed(messages) ==
            [instruments_df |-> None, instruments_region_df |-> None,
             instruments_type_df |-> None, messages |-> messages]
    IN IF ~file.readable
       THEN Failed(<<Logged("error", "Die Datei wurde nicht gefunden."),
                     Logged("error", "Fehler beim Import der Instruments-Datei.")>>)
       ELSE IF region = None
       THEN Failed(<<Logged("info", "Instruments-Datei erfolgreich importiert."),
                     Logged("error", "Eine oder mehrere WKN-Zeilen in 'instruments_region_df' ergeben nicht 100% .")>>)
       ELSE IF type = None
       THEN Failed(<<Logged("info", "Instruments-Datei erfolgreich importiert."),
                     Logged("info", "Instruments-Region-Daten erfolgreich importiert."),
                     Logged("error", "Eine oder mehrere WKN-Zeilen in 'instruments_type_df' ergeben nicht 100%.")>>)
       ELSE [instruments_df |-> main, instruments_region_df |-> region,
             instruments_type_df |-> type,
             messages |-> <<Logged("info", "Instruments-Datei erfolgreich importiert."),
                            Logged("info", "Instruments-Region-Daten erfolgreich importiert."),
                            Logged("info", "Instruments-Type-Daten erfolgreich importiert."),
                            Logged("info", "Instruments-Import und -Verarbeitung erfolgreich abgeschlossen.")>>]

\* round(x, 1) of a sum that is not negative and not half way between two tenths
Round1(x) == Rat((20 * x[1] + x[2]) \div (2 * x[2]), 10)

\* the columns wkn and Ziel
TargetShares(file) == [w \in RowIndex(file) |-> RowOf(file, w).ziel]

\* target_shares_import_and_process: the table if the shares sum to 1 after
\* rounding to one decimal, None with a warning if not, an empty frame after
\* an error
target_shares_import_and_process(file) ==
    IF ~file.readable
    THEN [table |-> Ok(EmptyDF),
          messages |-> <<Logged("error", "Datei nicht gefunden"),
                         Logged("error", "Import der Target-Daten fehlgeschlagen.")>>]
    ELSE LET df == TargetShares(file)
             total_target_share == Round1(SumSkipNa(df, DOMAIN df))
         IN IF total_target_share = One
            THEN [table |-> Ok(df),
                  messages |-> <<Logged("info", "Target-Daten erfolgreich importiert und ueberprueft."),
                                 Logged("info", "Import der Target-Daten erfolgreich abgeschlossen.")>>]
            ELSE [table |-> None,
                  messages |-> <<Logged("warning", "Die Summe der 'target_share' ist nicht 100%."),
                                 Logged("warning", "Import der Target-Daten abgeschlossen mit 1 Warnung(en).")>>]

\* allocations of one instrument: an empty cell counts as 0
DetailCells(columns, a, b) ==
    [c \in columns |-> IF c \in {"Reg EU", "Type Stock"} THEN a ELSE b]

RegProfiles ==
    {DetailCells(RegColumns, One, NaN), DetailCells(RegColumns, Half, Half),
     DetailCells(RegColumns, Half, Rat(2, 5)), DetailCells(RegColumns, Rat(3, 5), Half)}

TypeProfiles ==
    {DetailCells(TypeColumns, One, NaN), DetailCells(TypeColumns, Rat(2, 5), Half)}

\* target shares of the two instruments: 100 %, 96 %, 90 % and 110 %
ZielProfiles ==
    {<<Half, Half>>, <<Half, Rat(23, 50)>>, <<Half, Rat(2, 5)>>, <<Rat(3, 5), Half>>}

InstrumentsRow(wkn, ticker, reg, type, ziel) ==
    [wkn |-> wkn, ticker |-> ticker, default_value |-> NaN,
     reg |-> reg, type |-> type, ziel |-> ziel]

InstrumentsFiles ==
    {[readable |-> TRUE,
      rows |-> <<InstrumentsRow("CM", "CBK.DE", f[1], f[3], f[5][1]),
                 InstrumentsRow("ftd", "FTD.DE", f[2], f[4], f[5][2])>>] :
        f \in RegProfiles \X RegProfiles \X TypeProfiles \X TypeProfiles \X ZielProfiles}
    \cup {[readable |-> FALSE, rows |-> <<>>]}

InitInstruments ==
    /\ InitInputs(EmptyDF)
    /\ InitResults
    /\ export_enabled \in BOOLEAN
    /\ IdleHoldings
    /\ IdleImporting
    /\ IdleTooling
    /\ passed = AsComputed
    /\ prices_file = None
    /\ instruments_df = <<>>
    /\ yesterday = 0
    /\ processed = <<>>
    /\ prices_updated = EmptyDF
    /\ instruments_file \in InstrumentsFiles
    /\ instruments_region_df = Unset
    /\ instruments_type_df = Unset
    /\ target_shares_df = Unset
    /\ log = <<>>
    /\ pc = "2"

\* everything sections 2 and 10.3 leave alone
unallocated == <<holdings, prices_file, yesterday, processed, prices_updated,
                 importing, passed, tooling, inputs, results>>

\* 2 instruments_import_and_process and the export of instruments_type_df
Main_2 ==
    /\ pc = "2"
    /\ LET returned == instruments_import_and_process(instruments_file)
       IN /\ instruments_df' = returned.instruments_df
          /\ instruments_region_df' = returned.instruments_region_df
          /\ instruments_type_df' = returned.instruments_type_df
          /\ log' = log \o returned.messages
          /\ exported' = IF returned.instruments_type_df = None THEN exported
                         ELSE Export({"instruments_type"})
    /\ Stage("instruments", "3")
    /\ UNCHANGED <<unallocated, instruments_file, target_shares_df>>

\* 3 to 10.1: exit(1) without the price table or the provisions, else on to
\* the target shares
Main_3_10 ==
    /\ pc = "3"
    /\ \E next \in {"10.3", "exit"} : Stage("sections 3 to 10.1", next)
    /\ UNCHANGED <<unallocated, allocation, instruments_df, exported>>

\* 10.3 and 10.5: target_shares_import_and_process; values_vs_target and its
\* export unless the table is None
Main_10_3_TargetShares ==
    /\ pc = "10.3"
    /\ LET returned == target_shares_import_and_process(instruments_file)
       IN /\ target_shares_df' = returned.table
          /\ IF returned.table # None
             THEN /\ log' = log \o returned.messages
                              \o <<Logged("info", "Zielportfolio eingelesen und geprueft")>>
                  /\ exported' = Export({"buy_sell"})
                  /\ Stage("rebalancing", "10.4")
             ELSE /\ log' = log \o returned.messages
                              \o <<Logged("warning", "Zielportfolio eingelesen, aber Summe ergibt nicht 100%. Keine weitere Bearbeitung")>>
                  /\ pc' = "10.4"
                  /\ UNCHANGED <<exported, executed>>
    /\ UNCHANGED <<unallocated, instruments_file, instruments_df,
                   instruments_region_df, instruments_type_df>>

NextInstruments ==
    \/ Main_2
    \/ Main_3_10
    \/ Main_10_3_TargetShares

SpecInstruments == InitInstruments /\ [][NextInstruments]_vars

(***************************************************************************)
(* compare_and_correct_prices of the historic price update tool, with      *)
(* ENABLE_BACKFILL = True and BACKFILL_START_DATE = None.  The provider    *)
(* has one history per instrument: the interval fetch returns its part     *)
(* inside the interval, the issue date is its first date unless the lookup *)
(* fails.  The stored table has one row per key and dates without time;    *)
(* the symbol of an instrument is the instrument itself.                   *)
(***************************************************************************)
ABS_TOL == Rat(1, 10000)

MIN_TRADING_DAYS_THRESHOLD == 5

EXCLUDE_WKNS == {"cash", "cm", "ftd", "lb1kwr"}

\* normalize_wkn(wkn).lower() on the identifiers of the stored tables
NormalizedLower == [w \in {"x1", "cm", "LB1KWR"} |->
                      IF w = "LB1KWR" THEN "lb1kwr" ELSE w]

\* wkn_to_yf_symbol returns None
Excluded(wkn) == NormalizedLower[wkn] \in EXCLUDE_WKNS

\* weekday() >= 5
is_weekend(d) == Weekday(d) >= 5

EarliestOf(S) == CHOOSE m \in S : \A n \in S : m <= n

DatesOf(table, wkn) == {k[1] : k \in {i \in DOMAIN table : i[2] = wkn}}

\* one pass of the loop over df_local.groupby(level="wkn"): the prices to
\* write into `corrected` and the rows to add
VisitWkn(df_local, provider, wkn) ==
    LET Nothing == [updates |-> EmptyDF, new_rows |-> {}, deviations |-> {}]
        dates == DatesOf(df_local, wkn)
        dates_bd == {d \in dates : ~is_weekend(d)}
    IN IF Excluded(wkn) \/ dates_bd = {} THEN Nothing
       ELSE
       LET wkn_start_date == EarliestOf(dates_bd)
           wkn_end_date == MaxOf(dates_bd)
           global_start_date == EarliestOf({k[1] : k \in DOMAIN df_local})
           history == provider[wkn].history
           known == provider[wkn].issue_date_found /\ DOMAIN history # {}
           issue_date == IF known THEN EarliestOf(DOMAIN history) ELSE 0
           needs_backfill ==
               /\ wkn_start_date > global_start_date
               /\ known
               /\ issue_date < wkn_start_date
           fetch_start ==
               IF needs_backfill
               THEN (IF issue_date > global_start_date THEN issue_date
                     ELSE global_start_date)
               ELSE wkn_start_date
           yf_series == [d \in {i \in DOMAIN history :
                                   fetch_start <= i /\ i <= wkn_end_date}
                           |-> history[d]]
       IN IF Cardinality(DOMAIN yf_series) < MIN_TRADING_DAYS_THRESHOLD
          THEN Nothing
          ELSE
          LET backfill_dates ==
                  IF needs_backfill THEN (DOMAIN yf_series) \ dates ELSE {}
              Fill(d) == IsNaN(df_local[<<d, wkn>>]) /\ ~IsNaN(yf_series[d])
              Update(d) ==
                  LET old_price == df_local[<<d, wkn>>]
                      diff == Sub(yf_series[d], old_price)
                  IN /\ ~IsNaN(old_price) /\ ~IsNaN(yf_series[d])
                     /\ IsFin(diff) /\ Gt(Abs(diff), ABS_TOL)
              changed == {d \in dates \cap DOMAIN yf_series : Fill(d) \/ Update(d)}
              added == {d \in backfill_dates : ~IsNaN(yf_series[d])}
          IN [updates |-> [k \in {<<d, wkn>> : d \in changed} |-> yf_series[k[1]]],
              new_rows |-> {[date |-> d, wkn |-> wkn, price |-> yf_series[d]] :
                               d \in added},
              deviations |->
                  {[date |-> d, wkn |-> wkn, backfill |-> FALSE] : d \in changed}
                  \cup {[date |-> d, wkn |-> wkn, backfill |-> TRUE] : d \in added}]

\* mutant: the new price is logged but not written
WithUpdates_NotWritten(table, updates) == table

\* corrected.loc[(date_key, wkn), PRICE_COL] = float(new_price)
WithUpdates(table, updates) ==
    [k \in DOMAIN table |-> IF k \in DOMAIN updates THEN updates[k] ELSE table[k]]

\* mutant: the new rows come first in the concat, so they win over existing rows
WithNewRows_NewFirst(table, rows) ==
    [k \in (DOMAIN table) \cup {<<r.date, r.wkn>> : r \in rows} |->
        IF \E r \in rows : <<r.date, r.wkn>> = k
        THEN (CHOOSE r \in rows : <<r.date, r.wkn>> = k).price
        ELSE table[k]]

\* pd.concat([corrected, new_df]) and ~index.duplicated(keep='first')
WithNewRows(table, rows) ==
    [k \in (DOMAIN table) \cup {<<r.date, r.wkn>> : r \in rows} |->
        IF k \in DOMAIN table THEN table[k]
        ELSE (CHOOSE r \in rows : <<r.date, r.wkn>> = k).price]

\* the provider's close of an instrument on a date
YfPrice(d) == Num(10 + d)

\* stored prices relative to the provider's: equal, within the tolerance,
\* exactly the tolerance away, far away, missing, infinite
StoredKinds == <<"same", "near", "edge", "far", "nan", "inf">>

StoredPriceOfKind(kind, d) ==
    CASE kind = "same" -> YfPrice(d)
      [] kind = "near" -> Add(YfPrice(d), Rat(1, 20000))
      [] kind = "edge" -> Sub(YfPrice(d), ABS_TOL)
      [] kind = "far"  -> Add(YfPrice(d), One)
      [] kind = "nan"  -> NaN
      [] kind = "inf"  -> Inf

\* the rows of one instrument on the dates S, the kinds running with the date
StoredRows(wkn, S, shift) ==
    [k \in S \X {wkn} |->
        StoredPriceOfKind(StoredKinds[((k[1] + shift) % Len(StoredKinds)) + 1], k[1])]

\* dates 1 .. 8 are Wednesday to Wednesday; 4 and 5 are the weekend
StoredDates == {{1, 2, 3, 6, 7, 8}, {3, 6, 7, 8}, {3, 7, 8}, {6, 7, 8},
                {2, 3, 6, 8}, {4, 5}, {3, 4, 8}}

ExcludedDates == {{}, {1}, {1, 2, 3, 6, 7, 8}}

Histories ==
    {[d \in S |-> YfPrice(d)] :
        S \in {{1, 2, 3, 6, 7, 8}, {2, 3, 6, 7, 8}, {3, 6, 7, 8}, {6, 7, 8},
               {1, 2, 3, 7, 8}, {}}}
    \cup {[d \in {1, 2, 3, 6, 7, 8} |-> IF d = 7 THEN NaN ELSE YfPrice(d)]}

StoredTablesOfTool ==
    {StoredRows("x1", f[1], f[2]) @@ StoredRows(f[4], f[3], 3) :
        f \in StoredDates \X (0 .. Len(StoredKinds) - 1) \X ExcludedDates
                \X {"cm", "LB1KWR"}}

RECURSIVE SortedWknsOf(_, _)
\* the groups of groupby(level="wkn"), in the order of the identifiers
SortedWknsOf(order, present) ==
    IF order = <<>> THEN <<>>
    ELSE (IF Head(order) \in present THEN <<Head(order)>> ELSE <<>>)
             \o SortedWknsOf(Tail(order), present)

InitCorrect ==
    /\ InitInputs(EmptyDF)
    /\ InitResults
    /\ export_enabled = FALSE
    /\ IdleHoldings
    /\ IdlePricing
    /\ IdleImporting
    /\ IdleAllocation
    /\ passed = AsComputed
    /\ input_df \in StoredTablesOfTool
    /\ yf_data \in [{"x1", "cm", "LB1KWR"} ->
                       [history : Histories, issue_date_found : BOOLEAN]]
    /\ yf_data["cm"] = yf_data["LB1KWR"]
    /\ yf_data["cm"].issue_date_found
    /\ DOMAIN yf_data["cm"].history = {1, 2, 3, 6, 7, 8}
    /\ todo = SortedWknsOf(<<"LB1KWR", "cm", "x1">>, {k[2] : k \in DOMAIN input_df})
    /\ corrected = input_df
    /\ deviations = {}
    /\ new_rows = {}
    /\ parquet = EmptyDF
    /\ cutoff_date = 0
    /\ confirm = ""
    /\ df_eom = EmptyDF
    /\ pc = "compare"

\* everything compare_and_correct_prices leaves alone
uncorrected == <<holdings, pricing, importing, passed, allocation, inputs,
                 results, exported, executed, input_df, yf_data, parquet,
                 cutoff_date, confirm, df_eom>>

\* one instrument of the loop
CompareWkn ==
    /\ pc = "compare"
    /\ todo # <<>>
    /\ LET visit == VisitWkn(input_df, yf_data, Head(todo))
       IN /\ corrected' = WithUpdates(corrected, visit.updates)
          /\ new_rows' = new_rows \cup visit.new_rows
          /\ deviations' = deviations \cup visit.deviations
    /\ todo' = Tail(todo)
    /\ pc' = "compare"
    /\ UNCHANGED uncorrected

\* after the loop: the new rows are appended, the table is sorted and returned
ReturnCorrected ==
    /\ pc = "compare"
    /\ todo = <<>>
    /\ corrected' = WithNewRows(corrected, new_rows)
    /\ pc' = "returned"
    /\ UNCHANGED <<uncorrected, todo, deviations, new_rows>>

NextCorrect ==
    \/ CompareWkn
    \/ ReturnCorrected

SpecCorrect == InitCorrect /\ [][NextCorrect]_vars

(***************************************************************************)
(* df_to_eom: the reduction of a table to its month ends.  Dates           *)
(* 1 .. DaysPerMonth are the first month, the next DaysPerMonth dates the  *)
(* second, and so on.                                                      *)
(***************************************************************************)
MonthOf(d) == (d - 1) \div DaysPerMonth

\* to_period('M') ... to_timestamp('M'): the last calendar day of the month
MonthEnd(month) == (month + 1) * DaysPerMonth

df_to_eom(table) ==
    LET dates == {k[1] : k \in DOMAIN table}
        latest_dates_per_month == {MonthEnd(MonthOf(d)) : d \in dates}
        selected == IF dates = {} THEN {}
                    ELSE latest_dates_per_month \cup {MaxOf(dates)}
    IN Restrict(table, {k \in DOMAIN table : k[1] \in selected})

\* two months and the first day of a third
EomDates == 1 .. (2 * DaysPerMonth + 1)

\* tables with the rows of "x1" on the dates S and of "cm" on some of them
EomTables ==
    {[k \in (S \X {"x1"}) \cup ((S \cap T) \X {"cm"}) |->
         IF k[2] = "x1" THEN Num(k[1]) ELSE Num(10 + k[1])] :
        <<S, T>> \in (SUBSET EomDates) \X {{}, {1, DaysPerMonth}, EomDates}}

InitEom ==
    /\ InitInputs(EmptyDF)
    /\ InitResults
    /\ export_enabled = FALSE
    /\ IdleHoldings
    /\ IdlePricing
    /\ IdleImporting
    /\ IdleAllocation
    /\ passed = AsComputed
    /\ input_df \in EomTables
    /\ yf_data = <<>>
    /\ todo = <<>>
    /\ corrected = EmptyDF
    /\ deviations = {}
    /\ new_rows = {}
    /\ parquet = EmptyDF
    /\ cutoff_date = 0
    /\ confirm = ""
    /\ df_eom = EmptyDF
    /\ pc = "eom"

Call_df_to_eom ==
    /\ pc = "eom"
    /\ df_eom' = df_to_eom(input_df)
    /\ pc' = "eom returned"
    /\ UNCHANGED <<holdings, pricing, importing, passed, allocation, inputs,
                   results, exported, executed, input_df, yf_data, todo,
                   corrected, deviations, new_rows, parquet, cutoff_date,
                   confirm>>

NextEom == Call_df_to_eom

SpecEom == InitEom /\ [][NextEom]_vars

(***************************************************************************)
(* delete_records: the tool that cuts a stored table at a date.  The file  *)
(* holds the table that was read from it when the function is called.      *)
(***************************************************************************)
\* what the user may type at the prompt
Answers == {"ja", "Ja", "JA", "ja ", "j", "nein", ""}

\* confirm.lower()
AnswerLower == [a \in Answers |->
                  CASE a \in {"ja", "Ja", "JA"} -> "ja"
                    [] OTHER -> a]

\* df[df.index.get_level_values('date') >= cutoff_date]
records_to_delete(table, cutoff) == {k \in DOMAIN table : k[1] >= cutoff}

\* mutant: the records of the cutoff date are kept
KeptRecords_Inclusive(table, cutoff) ==
    Restrict(table, {k \in DOMAIN table : k[1] <= cutoff})

\* df[df.index.get_level_values('date') < cutoff_date]
KeptRecords(table, cutoff) ==
    Restrict(table, {k \in DOMAIN table : k[1] < cutoff})

DeleteDates == 1 .. 3

DeleteTables ==
    {[k \in (S \X {"x1"}) \cup (T \X {"cm"}) |->
         IF k[2] = "x1" THEN Num(k[1]) ELSE Num(10 + k[1])] :
        <<S, T>> \in (SUBSET DeleteDates) \X {{}, {2}}}

InitDelete ==
    /\ InitInputs(EmptyDF)
    /\ InitResults
    /\ export_enabled = FALSE
    /\ IdleHoldings
    /\ IdlePricing
    /\ IdleImporting
    /\ IdleAllocation
    /\ passed = AsComputed
    /\ input_df \in DeleteTables
    /\ parquet = input_df
    /\ cutoff_date \in 1 .. 4
    /\ confirm = ""
    /\ yf_data = <<>>
    /\ todo = <<>>
    /\ corrected = EmptyDF
    /\ deviations = {}
    /\ new_rows = {}
    /\ df_eom = EmptyDF
    /\ pc = "delete"

\* delete_records(df, file_path, cutoff_date), the answer typed included
delete_records ==
    /\ pc = "delete"
    /\ IF records_to_delete(input_df, cutoff_date) # {}
       THEN \E answer \in Answers :
               /\ confirm' = answer
               /\ parquet' = IF AnswerLower[answer] = "ja"
                             THEN KeptRecords(input_df, cutoff_date)
                             ELSE parquet
       ELSE UNCHANGED <<confirm, parquet>>
    /\ pc' = "delete returned"
    /\ UNCHANGED <<holdings, pricing, importing, passed, allocation, inputs,
                   results, exported, executed, input_df, yf_data, todo,
                   corrected, deviations, new_rows, cutoff_date, df_eom>>

NextDelete == delete_records

SpecDelete == InitDelete /\ [][NextDelete]_vars

(***************************************************************************)
(* Properties                                                              *)
(***************************************************************************)
\* the table returned by yield_components_day, once it has returned one
DayReturned == yield_components_day_df.status = "ok"
DayRows == yield_components_day_df.rows

\* the amount a component table contributes to the row of key k
AmountAt(df, k) == IF k \in DOMAIN df /\ ~IsNaN(df[k]) THEN df[k] ELSE Zero

\* C1: in every row of the table returned by yield_components_day,
\* yield_total = yield_price + yield_dividends + yield_fees + yield_taxes,
\* also in the rows whose components were forced to zero.
C1_SumOfParts ==
    DayReturned =>
        \A k \in DOMAIN DayRows :
            DayRows[k].yield_total =
                Add(Add(Add(DayRows[k].yield_price, DayRows[k].yield_dividends),
                        DayRows[k].yield_fees),
                    DayRows[k].yield_taxes)

\* a returned table with a row of three non-zero components whose total
\* differs from each of them, next to a row forced to zero by its value 0
C1_Witness ==
    /\ DayReturned
    /\ \E k, z \in DOMAIN DayRows :
          /\ DayRows[k].yield_dividends = <<1, 100>>
          /\ DayRows[k].yield_fees = <<-1, 100>>
          /\ DayRows[k].yield_taxes = <<-1, 100>>
          /\ DayRows[k].yield_total = <<-1, 100>>
          /\ values_day_df[z] = Zero
          /\ AmountAt(gains_losses_before_fees_taxes_df, z) = One
          /\ DayRows[z].yield_total = Zero

\* the denominator of a row as the denominator rule states it
ChosenDenominator(value, transaction) ==
    IF Gt(Abs(transaction), Mul(Half, value)) /\ Gt(Abs(transaction), Zero)
    THEN Abs(transaction) ELSE value

AllYieldsZero(row) == \A c \in YieldColumns : row[c] = Zero

\* C2: a returned row whose position value is 0, or whose chosen
\* denominator is 0, has all five yields exactly 0, whatever its amounts.
C2_ZeroValueZeroYield ==
    DayReturned =>
        \A k \in DOMAIN DayRows :
            (\/ values_day_df[k] = Zero
             \/ ChosenDenominator(values_day_df[k],
                    AmountAt(transaction_value_at_price_day_df, k)) = Zero)
            => AllYieldsZero(DayRows[k])

\* a row with value 0 and non-zero gain, dividend, fee, tax and transaction
C2_Witness ==
    /\ DayReturned
    /\ \E k \in DOMAIN DayRows :
          /\ values_day_df[k] = Zero
          /\ AmountAt(gains_losses_before_fees_taxes_df, k) = Num(80)
          /\ AmountAt(interest_dividends_df, k) = One
          /\ AmountAt(fees_df, k) = Num(-1)
          /\ AmountAt(taxes_df, k) = Num(-1)
          /\ AmountAt(transaction_value_at_price_day_df, k) = Num(800)
          /\ AllYieldsZero(DayRows[k])

\* C3: in a returned row with positive value all four components are the
\* amounts divided by |transaction| when |transaction| > 0.5 * value and
\* |transaction| > 0, and by value otherwise; value 1000, transaction 800,
\* gain 80 gives yield_price 0.10, and |transaction| = 0.5 * value uses value.
C3_DenominatorSwitch ==
    DayReturned =>
        \A k \in DOMAIN DayRows :
            LET v == values_day_df[k]
                x == AmountAt(transaction_value_at_price_day_df, k)
                g == AmountAt(gains_losses_before_fees_taxes_df, k)
                den == ChosenDenominator(v, x)
            IN Gt(v, Zero) =>
                 /\ DayRows[k].yield_price = Div(g, den)
                 /\ DayRows[k].yield_dividends = Div(AmountAt(interest_dividends_df, k), den)
                 /\ DayRows[k].yield_fees = Div(AmountAt(fees_df, k), den)
                 /\ DayRows[k].yield_taxes = Div(AmountAt(taxes_df, k), den)
                 /\ (v = Num(1000) /\ x = Num(800) /\ g = Num(80)
                       => DayRows[k].yield_price = <<1, 10>>)
                 /\ (v = Num(2) /\ Abs(x) = One /\ g = Num(80)
                       => DayRows[k].yield_price = Num(40))

\* value 1000, transaction 800, gain 80: yield_price is 0.10
C3_Witness ==
    /\ DayReturned
    /\ \E k \in DOMAIN DayRows :
          /\ values_day_df[k] = Num(1000)
          /\ AmountAt(transaction_value_at_price_day_df, k) = Num(800)
          /\ AmountAt(gains_losses_before_fees_taxes_df, k) = Num(80)
          /\ AmountAt(fees_df, k) = Num(-1)
          /\ DayRows[k].yield_price = <<1, 10>>
          /\ DayRows[k].yield_fees = <<-1, 800>>

YearReturned == yield_components_year_df.status = "ok"
YearRows == yield_components_year_df.rows
ProfReturned == profitability_year_df.status = "ok"

AnnualOf == [yield_price     |-> "annual_yield_price",
             yield_dividends |-> "annual_yield_dividends",
             yield_fees      |-> "annual_yield_fees",
             yield_taxes     |-> "annual_yield_taxes",
             yield_total     |-> "annual_yield_total"]

\* the dates of year y on which instrument w has a daily yield row and a
\* strictly positive value
PositiveDays(w, y) ==
    {d \in Dates : /\ YearOf(d) = y
                   /\ <<d, w>> \in DOMAIN DayRows
                   /\ <<d, w>> \in DOMAIN values_day_df
                   /\ Gt(values_day_df[<<d, w>>], Zero)}

MinOf(S) == CHOOSE m \in S : \A n \in S : m <= n

RECURSIVE Compounded(_, _, _)
\* (1 + r_1) * (1 + r_2) * ... over the daily yields of column c on the dates
Compounded(w, c, dates) ==
    IF dates = {} THEN One
    ELSE Mul(Add(One, DayRows[<<MinOf(dates), w>>][c]),
             Compounded(w, c, dates \ {MinOf(dates)}))

\* the daily total yields of the round-trip example: +1 %, -1 %, +2 %
RoundTripDays ==
    /\ PositiveDays("X1", BaseYear) = {1, 2, 3}
    /\ DayRows[<<1, "X1">>].yield_total = <<1, 100>>
    /\ DayRows[<<2, "X1">>].yield_total = <<-1, 100>>
    /\ DayRows[<<3, "X1">>].yield_total = <<1, 50>>

\* C4: every annual figure of yield_components_year is the product of
\* (1 + daily component yield) over the included days of that instrument and
\* year, minus 1; +1 %, -1 %, +2 % give 1.01 * 0.99 * 1.02 - 1 = 0.019898,
\* not the sum 0.02.
C4_AnnualIsProduct ==
    YearReturned =>
        /\ \A key \in DOMAIN YearRows : \A c \in YieldColumns :
              YearRows[key][AnnualOf[c]] =
                  Sub(Compounded(key[2], c, PositiveDays(key[2], YearOf(key[1]))), One)
        /\ RoundTripDays =>
              /\ YearRows[<<3, "X1">>].annual_yield_total = <<9949, 500000>>
              /\ YearRows[<<3, "X1">>].annual_yield_total # <<1, 50>>

\* the round-trip example has been compounded
C4_Witness ==
    /\ YearReturned
    /\ RoundTripDays
    /\ YearRows[<<3, "X1">>].annual_yield_total = <<9949, 500000>>
    /\ YearRows[<<3, "X1">>].annual_yield_taxes = <<-199, 10000>>

\* the (year, instrument) pairs with at least one positive-value day
HeldPairs ==
    {g \in {<<YearOf(d), w>> : d \in Dates, w \in Wkns} : PositiveDays(g[2], g[1]) # {}}

\* C5: the annual figures use exactly the days with strictly positive value:
\* yield_components_year has rows only for instruments and years with such
\* a day and compounds over these days alone, profitability_year_table
\* counts these days in <wkn>_days and compounds over them in <wkn>_yield,
\* and both raise when there is no such day.
C5_OnlyPositiveDays ==
    /\ YearReturned =>
          /\ {<<YearOf(key[1]), key[2]>> : key \in DOMAIN YearRows} = HeldPairs
          /\ \A key \in DOMAIN YearRows :
                /\ key[1] \in PositiveDays(key[2], YearOf(key[1]))
                /\ YearRows[key].annual_yield_total =
                      Sub(Compounded(key[2], "yield_total",
                                     PositiveDays(key[2], YearOf(key[1]))), One)
    /\ ProfReturned =>
          \A y \in DOMAIN profitability_year_df.rows :
             \A c \in DOMAIN profitability_year_df.rows[y] :
                LET days == PositiveDays(c[1], y)
                    cell == profitability_year_df.rows[y][c]
                IN /\ days = {} => IsNaN(cell)
                   /\ days # {} /\ c[2] = "days" => cell = Num(Cardinality(days))
                   /\ days # {} /\ c[2] = "yield" =>
                         cell = Sub(Compounded(c[1], "yield_total", days), One)
    /\ DayReturned /\ HeldPairs = {} =>
          /\ yield_components_year_df.status \in {"unset", "ValueError: yield_components_day_df",
                                                  "ValueError: no positive holding"}
          /\ profitability_year_df.status \in {"unset", "ValueError: yield_components_day_df",
                                               "ValueError: no positive holding"}

\* an instrument with one held day and one day of value 0 in the same year
\* is reported with one day
C5_Witness ==
    /\ ProfReturned
    /\ YearReturned
    /\ DOMAIN values_day_df = {<<1, "X1">>, <<2, "X1">>}
    /\ values_day_df[<<1, "X1">>] = Num(100)
    /\ values_day_df[<<2, "X1">>] = Zero
    /\ AmountAt(gains_losses_before_fees_taxes_df, <<2, "X1">>) = One
    /\ DOMAIN profitability_year_df.rows = {BaseYear}
    /\ profitability_year_df.rows[BaseYear][<<"X1", "days">>] = One
    /\ profitability_year_df.rows[BaseYear][<<"X1", "yield">>] = <<1, 100>>

IsCash(w) == LowerOf[w] = "cash"

\* the six input tables all have a row for an instrument that is cash
CashInInputs ==
    \E k \in DOMAIN values_day_df :
        /\ IsCash(k[2])
        /\ k \in DOMAIN gains_losses_before_fees_taxes_df
        /\ k \in DOMAIN fees_df
        /\ k \in DOMAIN taxes_df
        /\ k \in DOMAIN interest_dividends_df
        /\ k \in DOMAIN transaction_value_at_price_day_df

\* C6: no row or column for "cash" appears in the output of
\* yield_components_day, of yield_components_year computed from it, or of
\* profitability_year_table, whatever rows the input tables have for cash.
C6_CashExcluded ==
    /\ \A k \in DOMAIN DayRows : ~IsCash(k[2])
    /\ \A k \in DOMAIN YearRows : ~IsCash(k[2])
    /\ ProfReturned =>
          /\ \A i \in 1 .. Len(profitability_year_df.columns) :
                ~IsCash(profitability_year_df.columns[i][1])
          /\ \A y \in DOMAIN profitability_year_df.rows :
                \A c \in DOMAIN profitability_year_df.rows[y] : ~IsCash(c[1])

\* cash is in all six input tables with a positive value, and all three
\* outputs have been returned with rows for the other instrument
C6_Witness ==
    /\ CashInInputs
    /\ \E k \in DOMAIN values_day_df : IsCash(k[2]) /\ Gt(values_day_df[k], Zero)
    /\ DayReturned /\ DayRows # EmptyDF
    /\ YearReturned /\ YearRows # EmptyDF
    /\ ProfReturned /\ Len(profitability_year_df.columns) = 2

DayCalled == yield_components_day_df.status # "unset"

\* the five yield columns as computed from the input tables
ComputedYields ==
    YieldResult(gains_losses_before_fees_taxes_df, fees_df, taxes_df,
                interest_dividends_df, values_day_df,
                transaction_value_at_price_day_df)

HasInfinite(rows) ==
    \E k \in DOMAIN rows : \E c \in YieldColumns :
        rows[k][c] = <<1, 0>> \/ rows[k][c] = <<-1, 0>>

\* C7: if any of the five computed yield columns holds +inf or -inf in any
\* row, yield_components_day raises and returns no table at all; a returned
\* table never holds an infinite yield.
C7_InfiniteRaises ==
    DayCalled =>
        /\ HasInfinite(ComputedYields) =>
              /\ ~DayReturned
              /\ DayRows = EmptyDF
              /\ (values_day_df # EmptyDF /\ gains_losses_before_fees_taxes_df # EmptyDF
                    => yield_components_day_df.status = "ValueError: inf")
        /\ ~HasInfinite(DayRows)

\* a finite positive value with an infinite gain and an opposite infinite
\* dividend: the call has raised the infinite-value error
C7_Witness ==
    /\ yield_components_day_df.status = "ValueError: inf"
    /\ \E k \in DOMAIN values_day_df :
          /\ values_day_df[k] = One
          /\ AmountAt(gains_losses_before_fees_taxes_df, k) = NInf
          /\ AmountAt(interest_dividends_df, k) = Inf
    /\ DayRows = EmptyDF

\* C8 as stated: once yield_components_day has failed in the main block, no
\* later stage is executed and no later report file is written.
C8_HaltsAfterFailure ==
    yield_components_day_df.status = "None" =>
        /\ executed = <<"gains_losses", "yield_components_day">>
        /\ exported \subseteq {"gains_losses_before_fees_taxes_day"}

\* C8, amended: once yield_components_day has failed in the main block,
\* yield_components_day_df is None, the annual components and the
\* profitability table are neither computed nor exported, and the block
\* goes on with invest, portfolio analysis, provisions and the later stages.
C8_SkipsYieldStagesOnly ==
    yield_components_day_df.status = "None" =>
        /\ yield_components_year_df = Unset
        /\ profitability_year_df = Unset
        /\ exported \cap (DayReports \cup YearReports \cup {"profitability_year"}) = {}
        /\ \A i \in 1 .. Len(executed) :
              executed[i] \notin {"yield_components_year", "profitability_year_table"}
        /\ pc \notin {"7.10", "7.11", "8"} => executed[3] = "invest"
        /\ pc \notin {"7.10", "7.11", "8", "9"} =>
              /\ executed[4] = "portfolio_analysis"
              /\ export_enabled => PortfolioReports \subseteq exported
        /\ pc = "end" =>
              /\ executed[Len(executed)] = "bank_exports"
              /\ export_enabled => OverviewReports \cup BankReports \subseteq exported

\* the day computation has failed on an infinite yield and the main block
\* has run to its end, writing the overview and bank reports
C8_Witness ==
    /\ yield_components_day_df.status = "None"
    /\ \E k \in DOMAIN values_day_df : values_day_df[k] = Inf
    /\ pc = "end"
    /\ export_enabled
    /\ "overview_day" \in exported
    /\ "depotauszug" \in exported

\* C9: yield_components_year returns exactly one row per (year, instrument)
\* with at least one included day, keyed by the latest included date of that
\* instrument in that year.
C9_KeyedByLastIncludedDate ==
    YearReturned =>
        /\ \A g \in HeldPairs :
              \E key \in DOMAIN YearRows :
                  /\ key[2] = g[2]
                  /\ key[1] \in PositiveDays(g[2], g[1])
                  /\ \A d \in PositiveDays(g[2], g[1]) : d <= key[1]
                  /\ \A other \in DOMAIN YearRows :
                        other[2] = g[2] /\ YearOf(other[1]) = g[1] => other = key
        /\ \A key \in DOMAIN YearRows : <<YearOf(key[1]), key[2]>> \in HeldPairs

\* an instrument held on day 1 and no longer on day 2 of the same year is
\* keyed by day 1, and one held in two years has a row for each
C9_Witness ==
    /\ YearReturned
    /\ \E w \in Wkns :
          /\ <<1, w>> \in DOMAIN YearRows
          /\ <<2, w>> \in DOMAIN values_day_df
          /\ values_day_df[<<2, w>>] = Zero
          /\ YearOf(2) = YearOf(1)
          /\ \A key \in DOMAIN YearRows : key = <<1, w>>

\* a second year gives a second row for the same instrument
C9_TwoYears ==
    /\ YearReturned
    /\ \E w \in Wkns, d, e \in Dates :
          /\ YearOf(d) # YearOf(e)
          /\ <<d, w>> \in DOMAIN YearRows
          /\ <<e, w>> \in DOMAIN YearRows

GainsCalled == pc # "call_gains_losses"
GainsRows == gains_losses_before_fees_taxes_day_df

\* row j of the value table directly precedes row k of the same instrument
Precedes(j, k) ==
    /\ j \in DOMAIN values_day_df /\ k \in DOMAIN values_day_df
    /\ j[2] = k[2] /\ j[1] < k[1]
    /\ \A i \in DOMAIN values_day_df : ~(i[2] = k[2] /\ j[1] < i[1] /\ i[1] < k[1])

\* C10: for every (date, instrument) of the value or the transaction table,
\* gains_losses_before_fees_taxes_day returns value(date) - value(previous
\* row of the same instrument) + transaction_value(date); the previous value
\* is 0 for an instrument's first row, every missing or undefined term is 0,
\* and the previous value never comes from another instrument.
C10_GainsLossesFormula ==
    GainsCalled =>
        /\ DOMAIN GainsRows = (DOMAIN values_day_df) \cup (DOMAIN transaction_value_at_price_day_df)
        /\ \A k \in DOMAIN GainsRows :
              \/ \E j \in DOMAIN values_day_df :
                    /\ Precedes(j, k)
                    /\ GainsRows[k] =
                          Add(Sub(AmountAt(values_day_df, k), AmountAt(values_day_df, j)),
                              AmountAt(transaction_value_at_price_day_df, k))
              \/ /\ ~\E j \in DOMAIN values_day_df : Precedes(j, k)
                 /\ GainsRows[k] =
                       Add(AmountAt(values_day_df, k),
                           AmountAt(transaction_value_at_price_day_df, k))

\* the first row of one instrument directly follows a row of another
\* instrument with a different value, and a later row has a predecessor
C10_Witness ==
    /\ GainsCalled
    /\ \E k, j \in DOMAIN values_day_df :
          /\ j[2] # k[2] /\ j[1] < k[1]
          /\ values_day_df[j] = Num(100)
          /\ values_day_df[k] = Num(100)
          /\ ~\E i \in DOMAIN values_day_df : Precedes(i, k)
          /\ GainsRows[k] = Num(101)
          /\ GainsRows[j] = Num(100)

\* a row with a predecessor of the same instrument and no transaction
C10_Shifted ==
    /\ GainsCalled
    /\ \E k, j \in DOMAIN values_day_df :
          /\ Precedes(j, k)
          /\ values_day_df[j] = Num(100) /\ values_day_df[k] = Zero
          /\ GainsRows[k] = Num(-101)


(***************************************************************************)
(* Daily shares and values                                                 *)
(***************************************************************************)
\* shares_from_bookings has returned
SharesReturned == pc \in {"6.1", "6.4", "7"}

\* the (instrument, account) pairs that have a booking
ObservedPairs == {<<k[2], k[3]>> : k \in DOMAIN bookings_df}

\* the calendar dates from the earliest booking through end_date
CoveredDates ==
    {d \in Dates : d <= end_date /\ \E k \in DOMAIN bookings_df : k[1] <= d}

\* the bookings of one pair dated on or before d
BookedThrough(d, pair) ==
    {k \in DOMAIN bookings_df : k[2] = pair[1] /\ k[3] = pair[2] /\ k[1] <= d}

RECURSIVE TotalDelta(_)
TotalDelta(S) ==
    IF S = {} THEN Zero
    ELSE LET k == CHOOSE i \in S : TRUE
         IN Add(bookings_df[k], TotalDelta(S \ {k}))

\* C11: the table returned by shares_from_bookings has one row for every
\* date from the earliest booking through end_date and every (instrument,
\* account) pair of the bookings; before the clamp, the share of a row is
\* the sum of the pair's deltas dated on or before the row's date, 0 when
\* there is none.  The rows are those of dates x instruments x accounts, so
\* an instrument and an account that never occur together have rows of 0.
C11_DenseCumulativeShares ==
    SharesReturned =>
        /\ \A d \in CoveredDates : \A pair \in ObservedPairs :
              /\ <<d, pair[1], pair[2]>> \in DOMAIN shares_day_banks_df
              /\ shares_day_banks_df[<<d, pair[1], pair[2]>>] =
                    Clamp(TotalDelta(BookedThrough(d, pair)))
        /\ \A k \in DOMAIN shares_day_banks_df :
              /\ k[1] \in CoveredDates
              /\ \E pair \in ObservedPairs : pair[1] = k[2]
              /\ \E pair \in ObservedPairs : pair[2] = k[3]
              /\ <<k[2], k[3]>> \notin ObservedPairs =>
                    shares_day_banks_df[k] = Zero

\* two bookings of one pair on different dates: the later dates carry the
\* sum of both, the first date the first delta alone
C11_Witness ==
    /\ SharesReturned
    /\ DOMAIN bookings_df = {<<1, "X1", "A">>, <<2, "X1", "A">>}
    /\ bookings_df[<<1, "X1", "A">>] = Num(2)
    /\ bookings_df[<<2, "X1", "A">>] = Threshold
    /\ end_date = 3
    /\ shares_day_banks_df[<<1, "X1", "A">>] = Num(2)
    /\ shares_day_banks_df[<<3, "X1", "A">>] = Rat(20001, 10000)

\* an instrument of one account next to another instrument of another
\* account: the table also has the rows of the pairs never booked
C11_CrossRows ==
    /\ SharesReturned
    /\ ObservedPairs = {<<"X1", "A">>, <<"cm", "B">>}
    /\ \E k \in DOMAIN shares_day_banks_df : k[2] = "cm" /\ k[3] = "A"

\* the running sum of the pair of row k before the clamp
RunningSum(k) == TotalDelta(BookedThrough(k[1], <<k[2], k[3]>>))

\* C12 as stated: a running sum becomes 0 exactly if its absolute value is
\* below 0.0001; a sum of magnitude 0.0001 or more, positive or negative,
\* is kept
C12_AbsoluteThreshold ==
    SharesReturned =>
        \A k \in DOMAIN shares_day_banks_df :
            IF Ge(Abs(RunningSum(k)), Threshold)
            THEN shares_day_banks_df[k] = RunningSum(k)
            ELSE shares_day_banks_df[k] = Zero

\* C12 amended: a running sum becomes 0 exactly if it is below 0.0001, every
\* negative sum included; a sum of 0.0001 or more is kept unchanged
C12_BelowThresholdIsZero ==
    SharesReturned =>
        \A k \in DOMAIN shares_day_banks_df :
            IF Ge(RunningSum(k), Threshold)
            THEN shares_day_banks_df[k] = RunningSum(k)
            ELSE shares_day_banks_df[k] = Zero

\* a sum of exactly 0.0001 is kept next to a sum of -0.0001 that becomes 0
C12_Witness ==
    /\ SharesReturned
    /\ DOMAIN bookings_df = {<<1, "X1", "A">>, <<1, "X1", "B">>}
    /\ bookings_df[<<1, "X1", "A">>] = Threshold
    /\ bookings_df[<<1, "X1", "B">>] = Neg(Threshold)
    /\ end_date = 1
    /\ shares_day_banks_df[<<1, "X1", "A">>] = Threshold
    /\ shares_day_banks_df[<<1, "X1", "B">>] = Zero

\* a sum of half the threshold becomes 0
C12_SmallPositive ==
    /\ SharesReturned
    /\ \E k \in DOMAIN shares_day_banks_df :
          /\ RunningSum(k) = Rat(1, 20000)
          /\ shares_day_banks_df[k] = Zero

\* C13: every share of the table returned by shares_from_bookings is
\* either exactly 0 or at least 0.0001, whatever the signs of the bookings;
\* no share is negative
C13_NeverBelowFloor ==
    SharesReturned =>
        \A k \in DOMAIN shares_day_banks_df :
            \/ shares_day_banks_df[k] = Zero
            \/ Ge(shares_day_banks_df[k], Threshold)

\* a purchase of 2 followed by a sale of 3: the share is 2, then 0
C13_Witness ==
    /\ SharesReturned
    /\ DOMAIN bookings_df = {<<1, "X1", "A">>, <<2, "X1", "A">>}
    /\ bookings_df[<<1, "X1", "A">>] = Num(2)
    /\ bookings_df[<<2, "X1", "A">>] = Num(-3)
    /\ end_date >= 2
    /\ shares_day_banks_df[<<1, "X1", "A">>] = Num(2)
    /\ shares_day_banks_df[<<2, "X1", "A">>] = Zero

\* values_from_shares_and_prices and aggregate_banks have returned
ValuesReturned == pc \in {"6.4", "7"}
AggregateReturned == pc = "7"

\* the price table has no price for (date, wkn)
PriceMissing(d, w) ==
    <<d, w>> \notin DOMAIN prices_df \/ IsNaN(prices_df[<<d, w>>])

\* C14: where the price of a (date, instrument) is missing, the value stays
\* undefined and is not turned into 0, in the per-account table returned by
\* values_from_shares_and_prices and in the (date, instrument) table that
\* aggregate_banks makes of it
C14_MissingPriceStaysUndefined ==
    AggregateReturned =>
        \A k \in DOMAIN shares_day_banks_df :
            PriceMissing(k[1], k[2]) =>
                /\ IsNaN(values_day_banks_df[k])
                /\ IsNaN(values_day_df[<<k[1], k[2]>>])

\* the per-account half of C14 alone
C14_PerAccountUndefined ==
    ValuesReturned =>
        \A k \in DOMAIN shares_day_banks_df :
            PriceMissing(k[1], k[2]) => IsNaN(values_day_banks_df[k])

\* what aggregate_banks makes of the undefined values of a (date, instrument)
C14_AggregateIsZero ==
    AggregateReturned =>
        \A k \in DOMAIN shares_day_banks_df :
            PriceMissing(k[1], k[2]) => values_day_df[<<k[1], k[2]>>] = Zero

(***************************************************************************)
(* Prices                                                                  *)
(***************************************************************************)
\* prices_import_and_process has returned a table
PricesReturned == pc = "4"

\* the table has a stored price for (date, instrument) before the filling
StoredPrice(d, w) ==
    <<d, w>> \in DOMAIN prices_updated /\ ~IsNaN(prices_updated[<<d, w>>])

InUpdate == pc \in {"3.3", "3.4"}

\* the rows of an instrument are as they were read from the file
UntouchedRows(w) ==
    \A d \in Dates :
        /\ <<d, w>> \in DOMAIN prices_df <=> <<d, w>> \in DOMAIN prices_file.rows
        /\ <<d, w>> \in DOMAIN prices_df => prices_df[<<d, w>>] = prices_file.rows[<<d, w>>]

\* C19: a failed market-data lookup (exception, empty result, no price for
\* a date) never raises out of prices_update and never ends its loop: the
\* instrument or the date is skipped (an instrument's rows stay as they
\* were, a date without price gets an undefined price), every other
\* instrument and date is still processed, and the table is returned
C19_LookupFailuresAreSkipped ==
    /\ pc # "raised"
    /\ pc \in {"3.4", "4"} =>
          processed = <<>> \/ Len(processed) = Len(instruments_df)
    /\ pc = "4" => DOMAIN prices_updated # {}
    /\ InUpdate =>
          LET missing == MissingDates(prices_file.rows, yesterday)
          IN \A i \in 1 .. Len(processed) :
               LET w == instruments_df[i].wkn
                   lookup == processed[i]
               IN /\ lookup.kind \in {"exception", "empty"} => UntouchedRows(w)
                  /\ lookup.kind = "default" =>
                        \A d \in missing :
                            prices_df[<<d, w>>] = instruments_df[i].default_value
                  /\ lookup.kind = "data" =>
                        \A d \in missing :
                            CASE lookup.close[d] = "value" ->
                                    prices_df[<<d, w>>] = CloseOf(d, w)
                              [] lookup.close[d] = "KeyError" ->
                                    IsNaN(prices_df[<<d, w>>])
                              [] OTHER -> <<d, w>> \notin DOMAIN prices_df

\* the lookup of the first instrument raises, the second has a price for
\* one of two missing dates only, the third has no ticker: the later
\* instruments are processed and their rows are in the returned table
C19_Witness ==
    /\ pc = "4"
    /\ Len(processed) = 3
    /\ processed[1].kind = "exception"
    /\ processed[2].kind = "data"
    /\ DOMAIN processed[2].close = {2, 3}
    /\ processed[2].close[2] = "KeyError"
    /\ processed[2].close[3] = "value"
    /\ <<3, "cm">> \notin DOMAIN prices_updated
    /\ IsNaN(prices_updated[<<2, "ftd">>])
    /\ prices_updated[<<3, "ftd">>] = CloseOf(3, "ftd")
    /\ prices_updated[<<3, "cash">>] = One

(***************************************************************************)
(* Imports of the bookings spreadsheet                                     *)
(***************************************************************************)
\* the column each import function reads
FieldOf ==
    [f \in {"bookings_import", "fees_import", "taxes_import",
            "interest_dividends_import", "transaction_value_at_price_import"} |->
        CASE f = "bookings_import" -> "delta"
          [] f = "fees_import" -> "fees"
          [] f = "taxes_import" -> "taxes"
          [] f = "interest_dividends_import" -> "interest_dividends"
          [] OTHER -> "transaction_value_at_price"]

\* the key of input row i, instrument and account in lower case
KeyOfRow(i) ==
    <<bookings_file.rows[i].date, LowerText[bookings_file.rows[i].wkn],
      LowerText[bookings_file.rows[i].bank]>>

\* the input rows of key k that have instrument, account and the field
PresentRows(k, field) ==
    {i \in 1 .. Len(bookings_file.rows) :
        /\ KeyOfRow(i) = k
        /\ k[2] # EmptyText
        /\ k[3] # EmptyText
        /\ ~IsNaN(bookings_file.rows[i][field])}

RECURSIVE TotalField(_, _)
TotalField(S, field) ==
    IF S = {} THEN Zero
    ELSE LET i == CHOOSE j \in S : TRUE
         IN Add(bookings_file.rows[i][field], TotalField(S \ {i}, field))

\* C16: the table returned by bookings_import, fees_import, taxes_import,
\* interest_dividends_import and transaction_value_at_price_import has a row
\* for a (date, instrument, account) exactly if some input row of that key
\* has the field, one row at most, holding the sum of the field over those
\* input rows; rows without the field add nothing and make no row
C16_OneSummedRowPerKey ==
    \A f \in DOMAIN imported :
        imported[f].status = "ok" =>
            LET table == imported[f].rows
                keys == {KeyOfRow(i) : i \in 1 .. Len(bookings_file.rows)}
            IN /\ DOMAIN table \subseteq keys
               /\ \A k \in keys :
                    /\ k \in DOMAIN table <=> PresentRows(k, FieldOf[f]) # {}
                    /\ k \in DOMAIN table =>
                          table[k] = TotalField(PresentRows(k, FieldOf[f]), FieldOf[f])

\* three input rows of one key: two deltas, one fee, one tax and no delta
C16_Witness ==
    /\ pc = "returned"
    /\ bookings_file.readable
    /\ bookings_file.rows =
          << FileRow(1, "cm", "a", Num(2), NaN, NaN, Num(100), NaN),
             FileRow(1, "CM", "A", One, Num(-1), NaN, Num(50), NaN),
             FileRow(1, "cm", "a", NaN, NaN, Num(-3), NaN, Num(5)) >>
    /\ imported["bookings_import"].rows = (<<1, "cm", "a">> :> Num(3))
    /\ imported["fees_import"].rows = (<<1, "cm", "a">> :> Num(-1))
    /\ imported["taxes_import"].rows = (<<1, "cm", "a">> :> Num(-3))
    /\ imported["interest_dividends_import"].rows = (<<1, "cm", "a">> :> Num(5))
    /\ imported["transaction_value_at_price_import"].rows =
          (<<1, "cm", "a">> :> Num(150))

(***************************************************************************)
(* Validation of the inputs                                                *)
(***************************************************************************)
\* a table that is None, has no row or lacks its column
Unusable(shape, df) == shape # "frame" \/ df = EmptyDF

\* the function has raised: there is an error and no table
HasRaised(result) == result.status \notin {"ok", "unset"} /\ result.rows = EmptyDF

\* the daily yields handed to yield_components_year
YieldsPassed ==
    PassedYields(passed.yield_components_day_df, passed.yield_columns,
                 yield_components_day_df)

\* no row of the daily yields has a positive value in the value table
NoPositiveDay ==
    \A k \in DOMAIN YieldsPassed.rows :
        k \notin DOMAIN values_day_df \/ ~Gt(values_day_df[k], Zero)

\* C17: yield_components_day raises when the value table or the gain/loss
\* table is None, empty or lacks its column; yield_components_year raises
\* when the daily yields are None, empty or lack one of the five columns,
\* or when no day has a positive value; neither returns a table then
C17_InvalidInputsRaise ==
    /\ ( /\ pc \in {"call_yield_components_year", "returned"}
          /\ \/ Unusable(passed.values_day_df, values_day_df)
             \/ Unusable(passed.gains_losses_before_fees_taxes_df,
                         gains_losses_before_fees_taxes_df) )
          => HasRaised(yield_components_day_df)
    /\ ( /\ pc = "returned"
          /\ \/ YieldsPassed.status # "ok"
             \/ YieldsPassed.rows = EmptyDF
             \/ passed.yield_columns # YieldColumns
             \/ NoPositiveDay )
          => HasRaised(yield_components_year_df)

\* a value table without the column 'value' makes yield_components_day
\* raise, and yield_components_year, which then gets None, raises as well
C17_Witness ==
    /\ pc = "returned"
    /\ passed.values_day_df = "other_column"
    /\ values_day_df # EmptyDF
    /\ passed.gains_losses_before_fees_taxes_df = "frame"
    /\ gains_losses_before_fees_taxes_df # EmptyDF
    /\ yield_components_day_df = Raised("ValueError: column value")
    /\ yield_components_year_df = Raised("ValueError: yield_components_day_df")

\* a daily table without the column yield_taxes makes yield_components_year
\* raise although a day has a positive value
C17_MissingYieldColumn ==
    /\ pc = "returned"
    /\ yield_components_day_df.status = "ok"
    /\ passed.yield_components_day_df = "frame"
    /\ passed.yield_columns = YieldColumns \ {"yield_taxes"}
    /\ ~NoPositiveDay
    /\ yield_components_year_df = Raised("ValueError: missing columns")

\* the daily yields are complete, but the only day has value 0
C17_NoPositiveHolding ==
    /\ pc = "returned"
    /\ YieldsPassed.status = "ok"
    /\ YieldsPassed.rows # EmptyDF
    /\ passed.yield_columns = YieldColumns
    /\ yield_components_year_df.status = "ValueError: no positive holding"

(***************************************************************************)
(* Layout of the profitability table                                       *)
(***************************************************************************)
\* the instruments with a positive-value day, and the years of such days
HeldWkns == {g[2] : g \in HeldPairs}
HeldYears == {g[1] : g \in HeldPairs}

\* the code points of the first characters in which two identifiers differ
CodePointRank == [Cash |-> 1, X1 |-> 2, cash |-> 3, cm |-> 4]

\* rows are the years; the columns are <wkn>_days, <wkn>_yield for each
\* instrument in turn, the instruments ascending
ProfitabilityLayout ==
    LET columns == profitability_year_df.columns
    IN /\ DOMAIN profitability_year_df.rows = HeldYears
       /\ Len(columns) = 2 * Cardinality(HeldWkns)
       /\ {columns[i][1] : i \in 1 .. Len(columns)} = HeldWkns
       /\ \A i \in 1 .. Len(columns) :
            /\ i % 2 = 1 => columns[i][2] = "days" /\ columns[i + 1] = <<columns[i][1], "yield">>
            /\ i % 2 = 1 /\ i + 2 <= Len(columns) =>
                  CodePointRank[columns[i][1]] < CodePointRank[columns[i + 2][1]]
       /\ \A y \in HeldYears :
            DOMAIN profitability_year_df.rows[y] = {columns[i] : i \in 1 .. Len(columns)}

\* C18 as stated: rows are years, each instrument has the column pair
\* <wkn>_days, <wkn>_yield in that order, instruments ascending, and
\* <wkn>_days of a year is the number of dates of that year on which the
\* instrument's value is strictly positive
C18_DaysIsTheCount ==
    ProfReturned =>
        /\ ProfitabilityLayout
        /\ \A y \in HeldYears : \A w \in HeldWkns :
              profitability_year_df.rows[y][<<w, "days">>] =
                  Num(Cardinality(PositiveDays(w, y)))

\* C18 amended: as stated for every year in which the instrument has such a
\* date; in a year of the table in which it has none, <wkn>_days and
\* <wkn>_yield are undefined instead of 0
C18_DaysIsTheCountOrUndefined ==
    ProfReturned =>
        /\ ProfitabilityLayout
        /\ \A y \in HeldYears : \A w \in HeldWkns :
              IF PositiveDays(w, y) # {}
              THEN profitability_year_df.rows[y][<<w, "days">>] =
                      Num(Cardinality(PositiveDays(w, y)))
              ELSE /\ IsNaN(profitability_year_df.rows[y][<<w, "days">>])
                   /\ IsNaN(profitability_year_df.rows[y][<<w, "yield">>])

\* two instruments in the first year, one of them with two days and with a
\* day in the second year as well
C18_Witness ==
    /\ ProfReturned
    /\ profitability_year_df.columns =
          << <<"X1", "days">>, <<"X1", "yield">>, <<"cm", "days">>, <<"cm", "yield">> >>
    /\ DOMAIN profitability_year_df.rows = {BaseYear, BaseYear + 1}
    /\ profitability_year_df.rows[BaseYear][<<"X1", "days">>] = Num(2)
    /\ profitability_year_df.rows[BaseYear][<<"cm", "days">>] = One
    /\ profitability_year_df.rows[BaseYear + 1][<<"X1", "days">>] = One
    /\ IsNaN(profitability_year_df.rows[BaseYear + 1][<<"cm", "days">>])

(***************************************************************************)
(* Allocation sums and the target-share gate                               *)
(***************************************************************************)
\* the sum of the cells of one group of columns in the row of an instrument
CellSum(row, cells) == SumSkipNa(row[cells], DOMAIN row[cells])

\* some instrument's region or type shares do not sum to 100 %
AllocationOff ==
    \E i \in 1 .. Len(instruments_file.rows) :
        \/ CellSum(instruments_file.rows[i], "reg") # One
        \/ CellSum(instruments_file.rows[i], "type") # One

TargetSum ==
    SumSkipNa(TargetShares(instruments_file), RowIndex(instruments_file))

HasLogged(level) == \E i \in 1 .. Len(log) : log[i].level = level

ImportReturned == pc \in {"3", "10.3", "10.4", "exit"}

\* C20: when the region or type shares of an instrument do not sum to 100 %
\* the instruments import reports a warning and still returns the tables;
\* a target-share sum that is not 100 % skips the rebalancing step and the
\* run goes on
C20_WarningButOnlyTargetGate ==
    /\ ImportReturned /\ instruments_file.readable /\ AllocationOff =>
          /\ HasLogged("warning")
          /\ instruments_region_df.status = "ok"
          /\ instruments_type_df.status = "ok"
    /\ pc = "10.4" /\ instruments_file.readable /\ TargetSum # One =>
          /\ \A i \in 1 .. Len(executed) : executed[i] # "rebalancing"

\* what the code does with allocation sums: the tables are returned and
\* neither a warning nor an error is logged by the import
C20_AllocationSumsUnchecked ==
    pc = "3" /\ instruments_file.readable =>
        /\ instruments_region_df.status = "ok"
        /\ instruments_type_df.status = "ok"
        /\ ~HasLogged("warning")
        /\ ~HasLogged("error")

\* what the code does with the target shares: rebalancing is skipped, with
\* a warning, exactly when the sum rounded to one decimal is not 1
C20_TargetGateRounded ==
    pc = "10.4" /\ instruments_file.readable =>
        /\ (\E i \in 1 .. Len(executed) : executed[i] = "rebalancing")
              <=> Round1(TargetSum) = One
        /\ Round1(TargetSum) # One <=> HasLogged("warning")

\* a region sum of 90 % has passed the import silently
C20_SilentImport ==
    /\ pc = "3"
    /\ instruments_file.readable
    /\ CellSum(instruments_file.rows[1], "reg") = Rat(9, 10)
    /\ instruments_region_df.status = "ok"
    /\ instruments_region_df.rows[<<"cm", "reg us">>] = Rat(2, 5)
    /\ ~HasLogged("warning")

\* target shares of 96 % have passed the gate
C20_RoundedGate ==
    /\ pc = "10.4"
    /\ instruments_file.readable
    /\ TargetSum = Rat(24, 25)
    /\ \E i \in 1 .. Len(executed) : executed[i] = "rebalancing"

(***************************************************************************)
(* Bound of the denominator switch                                         *)
(***************************************************************************)
\* the amounts behind the four component columns of the row of key k
ComponentAmounts(k) ==
    [yield_price |-> AmountAt(gains_losses_before_fees_taxes_df, k),
     yield_dividends |-> AmountAt(interest_dividends_df, k),
     yield_fees |-> AmountAt(fees_df, k),
     yield_taxes |-> AmountAt(taxes_df, k)]

ComponentColumns == {"yield_price", "yield_dividends", "yield_fees", "yield_taxes"}

\* the switch applies to the row of key k
Switched(k) ==
    LET v == values_day_df[k]
        x == Abs(AmountAt(transaction_value_at_price_day_df, k))
    IN Gt(v, Zero) /\ Gt(x, Mul(v, Half)) /\ Gt(x, Zero)

\* C21 as stated: where the switch applies, no component is larger in
\* magnitude than the same amount divided by the position value, the chosen
\* denominator being never smaller than the value
C21_SwitchNeverEnlarges ==
    DayReturned =>
        \A k \in DOMAIN DayRows :
            Switched(k) =>
                /\ ~Gt(values_day_df[k],
                       Abs(AmountAt(transaction_value_at_price_day_df, k)))
                /\ \A c \in ComponentColumns :
                      ~Gt(Abs(DayRows[k][c]),
                          Abs(Div(ComponentAmounts(k)[c], values_day_df[k])))

\* C21 amended: the chosen denominator is larger than half the value, so in
\* every row with positive value a component is at most twice the amount
\* divided by the value, and less than that where the switch applies; it is
\* no larger than amount / value where |transaction| >= value and larger
\* where 0.5 * value < |transaction| < value and the amount is not 0
C21_SwitchBoundedByTwice ==
    DayReturned =>
        \A k \in DOMAIN DayRows :
            LET v == values_day_df[k]
                x == Abs(AmountAt(transaction_value_at_price_day_df, k))
            IN Gt(v, Zero) /\ IsFin(v) =>
                 \A c \in ComponentColumns :
                    LET plain == Abs(Div(ComponentAmounts(k)[c], v))
                        yield == Abs(DayRows[k][c])
                    IN /\ ~Gt(yield, Mul(Num(2), plain))
                       /\ Switched(k) /\ plain # Zero => Gt(Mul(Num(2), plain), yield)
                       /\ Switched(k) /\ ~Gt(v, x) => ~Gt(yield, plain)
                       /\ Switched(k) /\ Gt(v, x) /\ plain # Zero => Gt(yield, plain)

\* value 1000, transaction -800, gain 80: yield_price 0.10 is above 0.08
C21_Witness ==
    /\ DayReturned
    /\ \E k \in DOMAIN DayRows :
          /\ values_day_df[k] = Num(1000)
          /\ AmountAt(transaction_value_at_price_day_df, k) = Num(-800)
          /\ AmountAt(gains_losses_before_fees_taxes_df, k) = Num(80)
          /\ Switched(k)
          /\ DayRows[k].yield_price = <<1, 10>>
          /\ Gt(DayRows[k].yield_price, Div(Num(80), Num(1000)))

\* value 1, transaction 2: the switch halves the yield
C21_LargerTransaction ==
    /\ DayReturned
    /\ \E k \in DOMAIN DayRows :
          /\ values_day_df[k] = One
          /\ AmountAt(transaction_value_at_price_day_df, k) = Num(2)
          /\ AmountAt(gains_losses_before_fees_taxes_df, k) = Num(80)
          /\ DayRows[k].yield_price = Num(40)

(***************************************************************************)
(* Keys of the daily yield table                                           *)
(***************************************************************************)
\* the keys of the component tables other than the value table
ComponentKeys ==
    (DOMAIN gains_losses_before_fees_taxes_df) \cup (DOMAIN fees_df)
        \cup (DOMAIN taxes_df) \cup (DOMAIN interest_dividends_df)
        \cup (DOMAIN transaction_value_at_price_day_df)

\* C22: the table returned by yield_components_day has a row for exactly the
\* keys of the value table whose instrument is not "cash" in any spelling;
\* cm keeps its rows, a key of another table only has no row
C22_RowsAreTheNonCashValueKeys ==
    DayReturned =>
        /\ DOMAIN DayRows =
              {k \in DOMAIN values_day_df : k[2] \notin {"cash", "Cash"}}
        /\ \A k \in ComponentKeys \ DOMAIN values_day_df : k \notin DOMAIN DayRows
        /\ \A k \in DOMAIN values_day_df : k[2] = "cm" => k \in DOMAIN DayRows

\* cm and X1 have their rows, Cash has a value but no row, and the key with
\* amounts but no value has none
C22_Witness ==
    /\ DayReturned
    /\ <<1, "Cash">> \in DOMAIN values_day_df
    /\ <<3, "X1">> \in ComponentKeys \ DOMAIN values_day_df
    /\ DOMAIN DayRows = {<<1, "cm">>, <<1, "X1">>, <<2, "X1">>, <<NumDates, "X1">>}

(***************************************************************************)
(* Corrections and backfill of the historic price update                   *)
(***************************************************************************)
CorrectedReturned == pc = "returned" /\ input_df # EmptyDF

\* the price the provider has for the row of key k, NaN if it has none
ProviderPrice(k) ==
    IF k[1] \in DOMAIN yf_data[k[2]].history
    THEN yf_data[k[2]].history[k[1]] ELSE NaN

WithinTolerance(old, new) == ~Gt(Abs(Sub(new, old)), ABS_TOL)

\* what C23 asks of an existing row of a compared instrument with provider
\* price p
CorrectedAsClaimed(k) ==
    LET old == input_df[k]
        p == ProviderPrice(k)
    IN IF IsNaN(old) THEN corrected[k] = p
       ELSE IF WithinTolerance(old, p) THEN corrected[k] = old
       ELSE corrected[k] = p

\* C23 as stated: every existing row of a non-excluded instrument for which
\* the provider has a price is filled, replaced or kept by the tolerance
\* rule; every other existing row is as in the input
C23_CorrectedByToleranceRule ==
    CorrectedReturned =>
        \A k \in DOMAIN input_df :
            IF ~Excluded(k[2]) /\ ~IsNaN(ProviderPrice(k))
            THEN CorrectedAsClaimed(k)
            ELSE corrected[k] = input_df[k]

\* the days the provider returns for the instrument: those of its history
\* from the first to the last stored weekday, and from the issue date or the
\* first date of the table on when the instrument starts later than the table
\* and its issue date is found and earlier than its first stored weekday
FetchedDays(wkn) ==
    LET dates_bd == {d \in DatesOf(input_df, wkn) : ~is_weekend(d)}
        first == EarliestOf({k[1] : k \in DOMAIN input_df})
        history == yf_data[wkn].history
        backward == /\ yf_data[wkn].issue_date_found
                    /\ \E d \in DOMAIN history : d < EarliestOf(dates_bd)
        from == IF backward THEN first ELSE EarliestOf(dates_bd)
    IN {d \in DOMAIN history : from <= d /\ d <= MaxOf(dates_bd)}

\* the instrument is compared: not excluded, a weekday row, and at least
\* MIN_TRADING_DAYS_THRESHOLD days returned by the provider
Compared(wkn) ==
    /\ ~Excluded(wkn)
    /\ \E d \in DatesOf(input_df, wkn) : ~is_weekend(d)
    /\ Cardinality(FetchedDays(wkn)) >= MIN_TRADING_DAYS_THRESHOLD

\* C23 amended: the tolerance rule holds for the rows with a finite or
\* missing stored price of every instrument for which the provider returned
\* at least MIN_TRADING_DAYS_THRESHOLD days; the rows of an instrument with
\* fewer days, the rows with an infinite stored price, the rows without
\* provider price and the rows of an excluded instrument are as in the input
C23_CorrectedWhenEnoughDays ==
    CorrectedReturned =>
        \A k \in DOMAIN input_df :
            IF Compared(k[2]) /\ ~IsNaN(ProviderPrice(k)) /\ ~IsInf(input_df[k])
            THEN CorrectedAsClaimed(k)
            ELSE corrected[k] = input_df[k]

\* six stored rows against six provider days: one filled, one replaced, the
\* ones within the tolerance and the excluded instrument's rows kept
C23_Witness ==
    /\ CorrectedReturned
    /\ DatesOf(input_df, "x1") = {1, 2, 3, 6, 7, 8}
    /\ DatesOf(input_df, "LB1KWR") = {1, 2, 3, 6, 7, 8}
    /\ \E d \in {1, 2, 3, 6, 7, 8} :
          IsNaN(input_df[<<d, "x1">>]) /\ corrected[<<d, "x1">>] = YfPrice(d)
    /\ \E d \in {1, 2, 3, 6, 7, 8} :
          /\ input_df[<<d, "x1">>] = Add(YfPrice(d), One)
          /\ corrected[<<d, "x1">>] = YfPrice(d)
    /\ \E d \in {1, 2, 3, 6, 7, 8} :
          /\ input_df[<<d, "x1">>] = Sub(YfPrice(d), ABS_TOL)
          /\ corrected[<<d, "x1">>] = input_df[<<d, "x1">>]
    /\ \E d \in {1, 2, 3, 6, 7, 8} :
          /\ input_df[<<d, "LB1KWR">>] # ProviderPrice(<<d, "LB1KWR">>)
          /\ corrected[<<d, "LB1KWR">>] = input_df[<<d, "LB1KWR">>]

\* four stored rows, four provider days: the missing price stays missing
C23_TooFewDays ==
    /\ CorrectedReturned
    /\ DatesOf(input_df, "x1") = {3, 6, 7, 8}
    /\ DOMAIN yf_data["x1"].history = {3, 6, 7, 8}
    /\ \E d \in {3, 6, 7, 8} :
          IsNaN(input_df[<<d, "x1">>]) /\ IsNaN(corrected[<<d, "x1">>])


\* the rows reported with backfill = True
BackfilledRows == {r \in deviations : r.backfill}

\* C24: every row added by backfill is dated strictly before the earliest
\* stored date of its instrument and not before the first date of the table,
\* and no existing row is overwritten by it
C24_BackfillOnlyBeforeStored ==
    CorrectedReturned =>
        /\ \A r \in BackfilledRows :
              /\ r.date < EarliestOf(DatesOf(input_df, r.wkn))
              /\ r.date >= EarliestOf({k[1] : k \in DOMAIN input_df})
              /\ <<r.date, r.wkn>> \notin DOMAIN input_df
        /\ \A k \in DOMAIN input_df :
              k \in DOMAIN corrected
              /\ (corrected[k] # input_df[k]
                     => \E r \in deviations :
                           r.date = k[1] /\ r.wkn = k[2] /\ ~r.backfill)

\* what holds of the backfill: a new row is on a date without a row of the
\* instrument, between the first date of the table and the instrument's last
\* stored weekday, carries the provider's price, and the keys of the returned
\* table are the stored ones and the backfilled ones
C24_BackfillWithinFetchedRange ==
    CorrectedReturned =>
        /\ \A r \in BackfilledRows :
              /\ <<r.date, r.wkn>> \notin DOMAIN input_df
              /\ r.date >= EarliestOf({k[1] : k \in DOMAIN input_df})
              /\ r.date < MaxOf(DatesOf(input_df, r.wkn))
              /\ corrected[<<r.date, r.wkn>>] = yf_data[r.wkn].history[r.date]
        /\ DOMAIN corrected =
              (DOMAIN input_df) \cup {<<r.date, r.wkn>> : r \in BackfilledRows}

\* stored on 3, 7 and 8, the table starting on 1: the rows of 1 and 2 are
\* added before the stored range and the row of 6 inside it
C24_GapFilled ==
    /\ CorrectedReturned
    /\ DatesOf(input_df, "x1") = {3, 7, 8}
    /\ {r.date : r \in {b \in BackfilledRows : b.wkn = "x1"}} = {1, 2, 6}
    /\ <<6, "x1">> \in DOMAIN corrected


EomReturned == pc = "eom returned"

\* the rows of the latest date that has a row in its month
LatestPresentRows(table) ==
    {k \in DOMAIN table :
        \A i \in DOMAIN table : MonthOf(i[1]) = MonthOf(k[1]) => i[1] <= k[1]}

\* C25: df_to_eom returns exactly the rows of the latest date present in
\* each month that has a row, with their values
C25_LatestPresentDatePerMonth ==
    EomReturned => df_eom = Restrict(input_df, LatestPresentRows(input_df))

\* what the function returns: the rows on the last calendar day of a month
\* and the rows of the latest date of the table, with their values
C25_CalendarMonthEnds ==
    EomReturned =>
        df_eom = Restrict(input_df,
                    {k \in DOMAIN input_df :
                        \/ k[1] = MonthEnd(MonthOf(k[1]))
                        \/ \A i \in DOMAIN input_df : i[1] <= k[1]})

\* every month with a row, the month of the latest date apart, has a row on
\* its last calendar day
HasMonthEnds(table) ==
    \A k \in DOMAIN table :
        \/ \E i \in DOMAIN table : i[1] = MonthEnd(MonthOf(k[1]))
        \/ \A i \in DOMAIN table : MonthOf(i[1]) <= MonthOf(k[1])

\* on such a table, as on one with a row for every calendar day, the rows
\* returned are those of the latest date present in each month
C25_LatestPresentWhenMonthEndsStored ==
    (EomReturned /\ HasMonthEnds(input_df)) =>
        df_eom = Restrict(input_df, LatestPresentRows(input_df))

\* rows on the first two days of the first month and on the first day of
\* the second: the first month is missing from the result
C25_MonthDropped ==
    /\ EomReturned
    /\ {k[1] : k \in DOMAIN input_df} = {1, 2, DaysPerMonth + 1}
    /\ {k[1] : k \in DOMAIN df_eom} = {DaysPerMonth + 1}

\* a row on every day: the month ends and the latest date are returned
C25_DailyTable ==
    /\ EomReturned
    /\ {k[1] : k \in DOMAIN input_df} = EomDates
    /\ {k[1] : k \in DOMAIN df_eom} =
           {DaysPerMonth, 2 * DaysPerMonth, 2 * DaysPerMonth + 1}
    /\ <<DaysPerMonth, "cm">> \in DOMAIN df_eom


DeleteReturned == pc = "delete returned"

\* C26: the file is rewritten, to the records before the cutoff, exactly
\* when a record is on or after the cutoff and the answer is 'ja'; in every
\* other case it holds what it held
C26_RewrittenOnlyOnJa ==
    DeleteReturned =>
        IF records_to_delete(input_df, cutoff_date) # {} /\ confirm = "ja"
        THEN parquet = Restrict(input_df, {k \in DOMAIN input_df : k[1] < cutoff_date})
        ELSE parquet = input_df

\* C26 amended: the same with an answer that is 'ja' in any capitalisation
C26_RewrittenOnJaInAnyCase ==
    DeleteReturned =>
        IF records_to_delete(input_df, cutoff_date) # {}
           /\ confirm \in {"ja", "Ja", "JA"}
        THEN parquet = Restrict(input_df, {k \in DOMAIN input_df : k[1] < cutoff_date})
        ELSE parquet = input_df

\* the prompt is reached only with a record to delete
C26_AskedOnlyWithRecords ==
    (DeleteReturned /\ records_to_delete(input_df, cutoff_date) = {}) => confirm = ""

\* records on 1, 2 and 3, cutoff 2, answer 'ja': the file holds the record of 1
C26_Witness ==
    /\ DeleteReturned
    /\ DOMAIN input_df = {<<1, "x1">>, <<2, "x1">>, <<3, "x1">>, <<2, "cm">>}
    /\ cutoff_date = 2
    /\ confirm = "ja"
    /\ DOMAIN parquet = {<<1, "x1">>}

\* the answer 'JA' rewrites the file as well
C26_UpperCaseAnswer ==
    /\ DeleteReturned
    /\ confirm = "JA"
    /\ parquet # input_df

\* the answer 'nein' leaves the file as it is
C26_Declined ==
    /\ DeleteReturned
    /\ confirm = "nein"
    /\ records_to_delete(input_df, cutoff_date) # {}
    /\ parquet = input_df


(***************************************************************************)
(* Finite inputs and infinite yields                                       *)
(***************************************************************************)
InputTables ==
    <<values_day_df, gains_losses_before_fees_taxes_df, fees_df, taxes_df,
      interest_dividends_df, transaction_value_at_price_day_df>>

\* every amount of every input table is finite
FiniteInputs ==
    \A i \in 1 .. Len(InputTables) :
        \A k \in DOMAIN InputTables[i] : IsFin(InputTables[i][k])

InfiniteRaised == yield_components_day_df.status = "ValueError: inf"

\* C27: with finite amounts the call never raises the infinite-value error
\* and every yield it returns is finite
C27_FiniteInputsFiniteYields ==
    (DayCalled /\ FiniteInputs) =>
        /\ ~InfiniteRaised
        /\ \A k \in DOMAIN DayRows : \A c \in YieldColumns : IsFin(DayRows[k][c])

\* the exact quotients of the row of key k, and their sum
ExactYields(k) ==
    LET v == values_day_df[k]
        x == Abs(AmountAt(transaction_value_at_price_day_df, k))
        denominator == IF Gt(x, Mul(v, Half)) /\ Gt(x, Zero) THEN x ELSE v
        q == [c \in ComponentColumns |-> Div(ComponentAmounts(k)[c], denominator)]
    IN {q[c] : c \in ComponentColumns}
       \cup {Add(q.yield_price, q.yield_dividends),
             Add(Add(q.yield_price, q.yield_dividends), q.yield_fees),
             Add(Add(Add(q.yield_price, q.yield_dividends), q.yield_fees),
                 q.yield_taxes)}

\* no quotient and no partial sum of a row with positive value is beyond
\* the largest finite float
InFloatRange ==
    \A k \in DOMAIN values_day_df :
        (NotCash(k) /\ Gt(values_day_df[k], Zero)) =>
            \A y \in ExactYields(k) : ~Gt(Abs(y), FLOAT_MAX)

\* C27 amended: with finite amounts whose quotients and sums stay within
\* the float range, the infinite-value error is not raised, every returned
\* yield is finite, and a row whose value is not positive has the yields 0;
\* with a quotient or sum beyond the range the error is raised
C27_FiniteUnlessOverflow ==
    (DayCalled /\ FiniteInputs) =>
        /\ InFloatRange =>
              /\ ~InfiniteRaised
              /\ \A k \in DOMAIN DayRows :
                    /\ \A c \in YieldColumns : IsFin(DayRows[k][c])
                    /\ ~Gt(values_day_df[k], Zero) =>
                          \A c \in YieldColumns : DayRows[k][c] = Zero
        /\ (~InFloatRange /\ gains_losses_before_fees_taxes_df # EmptyDF)
              => InfiniteRaised

\* finite amounts, a positive value and a transaction: finite yields returned
C27_Witness ==
    /\ DayReturned
    /\ FiniteInputs
    /\ \E k \in DOMAIN DayRows :
          /\ values_day_df[k] = Num(1000)
          /\ AmountAt(transaction_value_at_price_day_df, k) = Num(-800)
          /\ AmountAt(gains_losses_before_fees_taxes_df, k) = Num(80)
          /\ DayRows[k].yield_total = <<1, 10>>

\* value 0.001 and gain 1000: the quotient overflows and the call raises
C27_Overflow ==
    /\ InfiniteRaised
    /\ FiniteInputs
    /\ values_day_df = (<<1, "X1">> :> Rat(1, 1000))
    /\ gains_losses_before_fees_taxes_df = (<<1, "X1">> :> Num(1000))

\* two quotients within the range whose sum is beyond it
C27_SumOverflow ==
    /\ InfiniteRaised
    /\ FiniteInputs
    /\ gains_losses_before_fees_taxes_df = (<<1, "X1">> :> Num(60))
    /\ interest_dividends_df = (<<1, "X1">> :> Num(60))


(***************************************************************************)
(* Profit-and-loss identity over time                                      *)
(***************************************************************************)
RECURSIVE SumUpTo(_, _, _)
\* the sum of the rows of an instrument dated on or before a date, an
\* undefined amount counted as 0
SumUpTo(table, wkn, date) ==
    LET rows == {k \in DOMAIN table : k[2] = wkn /\ k[1] <= date}
    IN IF rows = {} THEN Zero
       ELSE LET last == CHOOSE k \in rows : \A i \in rows : i[1] <= k[1]
            IN Add(SumUpTo(table, wkn, last[1] - 1), FillNa0(table[last]))

\* no value of the instrument up to the date is infinite
FiniteValuesUpTo(k) ==
    \A i \in DOMAIN values_day_df :
        (i[2] = k[2] /\ i[1] <= k[1]) => ~IsInf(values_day_df[i])

\* C28: for every instrument and every date D with a value row, the gains
\* and losses of the instrument's rows up to D add up to value(D) plus the
\* instrument's transaction values up to D, undefined amounts counted as 0
C28_ProfitAndLossIdentity ==
    GainsCalled =>
        \A k \in DOMAIN values_day_df :
            FiniteValuesUpTo(k) =>
                SumUpTo(GainsRows, k[2], k[1]) =
                    Add(FillNa0(values_day_df[k]),
                        SumUpTo(transaction_value_at_price_day_df, k[2], k[1]))

\* three value rows of one instrument with transactions on two of them
C28_Witness ==
    /\ GainsCalled
    /\ {k \in DOMAIN values_day_df : k[2] = "X1"} = {<<1, "X1">>, <<2, "X1">>, <<3, "X1">>}
    /\ SumUpTo(transaction_value_at_price_day_df, "X1", 3) = Num(1)
    /\ GainsRows[<<3, "X1">>] = Zero
    /\ SumUpTo(GainsRows, "X1", 3) = Num(101)

\* a transaction on a date without value row counts in the later sums
C28_TransactionWithoutValue ==
    /\ GainsCalled
    /\ \E k \in DOMAIN values_day_df :
          \E j \in DOMAIN transaction_value_at_price_day_df :
              /\ j \notin DOMAIN values_day_df
              /\ j[2] = k[2] /\ j[1] < k[1]
              /\ transaction_value_at_price_day_df[j] # Zero
              /\ SumUpTo(GainsRows, k[2], k[1]) # Zero


(***************************************************************************)
(* The two annual outputs                                                  *)
(***************************************************************************)
\* the (year, instrument) pairs with a row in yield_components_year
YearPairs == {<<YearOf(key[1]), key[2]>> : key \in DOMAIN YearRows}

\* the (year, instrument) pairs with an entry in profitability_year_table:
\* the cells of an instrument without row for the year are NaN, <wkn>_days
\* included, and <wkn>_days of an entry is a count
ProfitabilityPairs ==
    {g \in {<<y, c[1]>> : y \in DOMAIN profitability_year_df.rows,
                          c \in {profitability_year_df.columns[i] :
                                    i \in 1 .. Len(profitability_year_df.columns)}} :
        ~IsNaN(profitability_year_df.rows[g[1]][<<g[2], "days">>])}

\* C29: on the table returned by yield_components_day and the same value
\* table, <wkn>_yield of year Y in profitability_year_table is the
\* annual_yield_total of the instrument's row of year Y in
\* yield_components_year, and both have the same (year, instrument) pairs
C29_SameAnnualTotals ==
    /\ (YearReturned /\ ProfReturned) =>
          /\ YearPairs = ProfitabilityPairs
          /\ \A key \in DOMAIN YearRows :
                profitability_year_df.rows[YearOf(key[1])][<<key[2], "yield">>]
                    = YearRows[key].annual_yield_total
    /\ (YearReturned /\ profitability_year_df.status # "unset") => ProfReturned
    /\ ProfReturned => YearReturned

\* two instruments, one of them held in both years, with a total that
\* differs from the price component
C29_Witness ==
    /\ YearReturned /\ ProfReturned
    /\ Cardinality(YearPairs) = 3
    /\ \E key \in DOMAIN YearRows :
          /\ YearRows[key].annual_yield_total # YearRows[key].annual_yield_price
          /\ YearRows[key].annual_yield_total # Zero
          /\ profitability_year_df.rows[YearOf(key[1])][<<key[2], "yield">>]
                = YearRows[key].annual_yield_total
    /\ \E y \in DOMAIN profitability_year_df.rows :
          \E w \in HeldWkns : IsNaN(profitability_year_df.rows[y][<<w, "yield">>])


(***************************************************************************)
(* The price cache                                                         *)
(***************************************************************************)
\* prices_update is running or has returned, the file is not yet rewritten
Updating == pc \in {"3.3", "3.4"}

\* C30: prices_update leaves every stored price as it is and adds rows only
\* after the latest stored date; the file is rewritten with the table that
\* prices_update returned, before the reindex and the forward-fill, so every
\* price of the file is a price of that table and none is forward-filled
C30_CacheHoldsNoFilledPrice ==
    /\ Updating =>
          /\ \A k \in DOMAIN prices_file.rows :
                k \in DOMAIN prices_df /\ prices_df[k] = prices_file.rows[k]
          /\ \A k \in (DOMAIN prices_df) \ (DOMAIN prices_file.rows) :
                k[1] > LastDate(prices_file.rows)
    /\ PricesReturned =>
          /\ \A k \in DOMAIN prices_file.rows :
                k \in DOMAIN prices_updated
                /\ prices_file.rows[k] = prices_updated[k]
          /\ \/ prices_file = Ok(prices_updated)
             \/ \A k \in (DOMAIN prices_updated) \ (DOMAIN prices_file.rows) :
                   k[1] > LastDate(prices_file.rows)

\* the file changes in step 4 only, to the table as prices_update returned it
C30_RewrittenBeforeFilling ==
    [][prices_file' # prices_file =>
          /\ pc = "3.4" /\ pc' = "4"
          /\ prices_file' = Ok(prices_df)
          /\ prices_updated' = prices_df]_vars

\* a run that added prices after the stored dates, saved the file and then
\* filled a gap: the filled price is in the table and not in the file
C30_Witness ==
    /\ PricesReturned
    /\ prices_file = Ok(prices_updated)
    /\ \E k \in DOMAIN prices_updated : k[1] > 2 /\ ~IsNaN(prices_updated[k])
    /\ \E k \in DOMAIN prices_df :
          /\ ~IsNaN(prices_df[k])
          /\ k \notin DOMAIN prices_file.rows \/ IsNaN(prices_file.rows[k])

\* the save failed: the file is the one that was read
C30_SaveFailed ==
    /\ PricesReturned
    /\ prices_file # Ok(prices_updated)
    /\ \E k \in DOMAIN prices_updated : k \notin DOMAIN prices_file.rows

====
